---- MODULE Spec2Model ----
(***************************************************************************)
(* Model of @hixbe/time: the NTP packet parser (src/core/parser.ts), the   *)
(* UDP client with server fallback (src/core/client.ts) and the            *)
(* command-line driver (src/cli/index.ts).                                 *)
(*                                                                         *)
(* Numbers.  A JavaScript Number is modelled as an exact rational with the *)
(* fixed denominator 1000 * 2^36, held as the numerator in limbs of 12     *)
(* bits, least significant first; the last limb carries the sign and any   *)
(* excess.  The denominator makes every division of the program (by 2^32,  *)
(* by 1000, by 2) exact, so that the arithmetic below is the arithmetic of *)
(* the code over the rationals.  The rounding of IEEE-754 doubles is       *)
(* modelled for the sum that parseNTPTimestamp hands to Date (ToDouble)    *)
(* and nowhere else.  Buffer bytes and bit fields are plain integers.      *)
(***************************************************************************)
EXTENDS Integers, Sequences, FiniteSets, TLC

LimbBase == 2^12

RECURSIVE NormFrom(_, _, _)
NormFrom(s, i, c) ==
  IF i = Len(s) THEN << s[i] + c >>
  ELSE << (s[i] + c) % LimbBase >> \o NormFrom(s, i + 1, (s[i] + c) \div LimbBase)

\* a + b
NAdd(a, b) == NormFrom([i \in 1..Len(a) |-> a[i] + b[i]], 1, 0)

\* a - b
NSub(a, b) == NormFrom([i \in 1..Len(a) |-> a[i] - b[i]], 1, 0)

\* a * k for an integer literal k
NMul(a, k) == NormFrom([i \in 1..Len(a) |-> a[i] * k], 1, 0)

RECURSIVE DivFrom(_, _, _, _)
DivFrom(a, k, i, r) ==
  IF i = 0 THEN << >>
  ELSE DivFrom(a, k, i - 1, (r * LimbBase + a[i]) % k) \o << (r * LimbBase + a[i]) \div k >>

\* a / k for an integer literal k > 0 (exact whenever the program divides)
NDiv(a, k) == DivFrom(a, k, Len(a), 0)

\* the Number of the integer n
NInt(n) == NMul(NormFrom(<< 0, 0, 0, n, 0, 0, 0, 0 >>, 1, 0), 1000)

\* the Number of the unsigned 32-bit integer hi * 2^16 + lo
NWord(hi, lo) == NMul(NormFrom(<< 0, 0, 0, lo, hi * 16, 0, 0, 0 >>, 1, 0), 1000)

NZero == NInt(0)

NNeg(a) == NSub(NZero, a)

NSign(a) == IF a[Len(a)] < 0 THEN -1 ELSE IF a = NZero THEN 0 ELSE 1

NLess(a, b) == NSign(NSub(a, b)) < 0

NLeq(a, b) == NSign(NSub(a, b)) <= 0

\* Math.floor(a)
NFloor(a) ==
  LET q == NDiv(a, 1000)
  IN  NMul([i \in 1..Len(a) |-> IF i <= 3 THEN 0 ELSE q[i]], 1000)

\* the integer part of a, towards zero (ToIntegerOrInfinity, used by new Date(a))
NTrunc(a) == IF NSign(a) >= 0 THEN NFloor(a) ELSE NNeg(NFloor(NNeg(a)))

\* The result of an addition is the double nearest to the exact sum: a sum of
\* more than 53 bits loses its low bits, rounded to nearest, ties to even.
\* The magnitude is held in units of 2^-36.
LimbBits(x) == CHOOSE n \in 0..12 : x < 2^n /\ (n = 0 \/ x >= 2^(n - 1))

TopLimb(m) == CHOOSE h \in 0..Len(m) : (h = 0 \/ m[h] # 0) /\ \A i \in (h + 1)..Len(m) : m[i] = 0

BitLength(m) == IF TopLimb(m) = 0 THEN 0 ELSE 12 * (TopLimb(m) - 1) + LimbBits(m[TopLimb(m)])

Min(a, b) == IF a < b THEN a ELSE b

RoundBits(m, d) ==
  LET d1   == Min(d, 13)
      d2   == d - d1
      unit == NMul(NMul(<< 1, 0, 0, 0, 0, 0, 0, 0 >>, 2^d1), 2^d2)
      Rounded(kept, up) ==
        NMul(NMul(IF up THEN NAdd(kept, << 1, 0, 0, 0, 0, 0, 0, 0 >>) ELSE kept, 2^d1), 2^d2)
      Up(kept, half) == half > 0 \/ (half = 0 /\ kept[1] % 2 = 1)
      Half(kept) == NSign(NSub(NMul(NSub(m, NMul(NMul(kept, 2^d1), 2^d2)), 2), unit))
      Round(kept) == Rounded(kept, Up(kept, Half(kept)))
  IN  Round(NDiv(NDiv(m, 2^d1), 2^d2))

ToDouble(a) ==
  LET Magnitude(m, bits) == IF bits <= 53 THEN m ELSE RoundBits(m, bits - 53)
      Nearest(m) == Magnitude(m, BitLength(m))
      Signed(r) == IF NSign(a) < 0 THEN NNeg(NMul(r, 1000)) ELSE NMul(r, 1000)
  IN  Signed(Nearest(NDiv(IF NSign(a) < 0 THEN NNeg(a) ELSE a, 1000)))

NIsInt(a) == NFloor(a) = a

(***************************************************************************)
(* Exceptions.  A JavaScript call either returns a value or throws; both   *)
(* outcomes are values here.                                               *)
(***************************************************************************)
Return(v) == [threw |-> FALSE, value |-> v]

\* a call that has not settled
Pending == [threw |-> FALSE, pending |-> TRUE]

Throw(e) == [threw |-> TRUE, error |-> e]

null == "null"

(***************************************************************************)
(* parser.ts.  A Buffer is a sequence of bytes; the byte at JavaScript     *)
(* offset o is buffer[o + 1].  A Date is its time value, a whole number of *)
(* milliseconds.  The iso and local strings of a parsed timestamp are      *)
(* renderings of date and are left out.                                    *)
(***************************************************************************)
NTP_EPOCH_OFFSET == NWord(33706, 32384)

InvalidPacket == "Invalid NTP packet: minimum 48 bytes required"

ERR_OUT_OF_RANGE == "ERR_OUT_OF_RANGE"

\* Buffer.prototype.readUInt32BE: the bounds check, and the value read
InBounds(buffer, offset) == offset >= 0 /\ offset + 4 <= Len(buffer)

\* a variant of readUInt32BE that reads the bytes in the opposite order
readUInt32LE(buffer, offset) ==
  NWord(buffer[offset + 4] * 256 + buffer[offset + 3],
        buffer[offset + 2] * 256 + buffer[offset + 1])

readUInt32BE(buffer, offset) ==
  NWord(buffer[offset + 1] * 256 + buffer[offset + 2],
        buffer[offset + 3] * 256 + buffer[offset + 4])

\* new Date(value): the time value is the integer part of value
NewDate(value) == NTrunc(value)

getTime(date) == date

\* a variant of parseNTPTimestamp that keeps the Unix seconds in 32 bits, unsigned
parseNTPTimestampWrapped(buffer, offset) ==
  LET seconds      == readUInt32BE(buffer, offset)
      fraction     == readUInt32BE(buffer, offset + 4)
      milliseconds == NMul(NDiv(NDiv(fraction, 2^16), 2^16), 1000)
      difference   == NSub(seconds, NTP_EPOCH_OFFSET)
      unixSeconds  == IF NSign(difference) < 0
                        THEN NAdd(NAdd(difference, NWord(65535, 65535)), NInt(1))
                        ELSE difference
      date         == NewDate(ToDouble(NAdd(NMul(unixSeconds, 1000), milliseconds)))
  IN  [ raw       |-> [seconds |-> seconds, fraction |-> fraction],
        unix      |-> [seconds |-> unixSeconds, milliseconds |-> milliseconds],
        date      |-> date,
        timestamp |-> getTime(date) ]

\* a variant of parseNTPTimestamp that keeps whole milliseconds only
parseNTPTimestampWholeMs(buffer, offset) ==
  LET seconds      == readUInt32BE(buffer, offset)
      fraction     == readUInt32BE(buffer, offset + 4)
      milliseconds == NFloor(NMul(NDiv(NDiv(fraction, 2^16), 2^16), 1000))
      unixSeconds  == NSub(seconds, NTP_EPOCH_OFFSET)
      date         == NewDate(ToDouble(NAdd(NMul(unixSeconds, 1000), milliseconds)))
  IN  [ raw       |-> [seconds |-> seconds, fraction |-> fraction],
        unix      |-> [seconds |-> unixSeconds, milliseconds |-> milliseconds],
        date      |-> date,
        timestamp |-> getTime(date) ]

\* a variant of parseNTPTimestamp that rounds the milliseconds before it adds them
parseNTPTimestampRoundFirst(buffer, offset) ==
  LET seconds      == readUInt32BE(buffer, offset)
      fraction     == readUInt32BE(buffer, offset + 4)
      milliseconds == NMul(NDiv(NDiv(fraction, 2^16), 2^16), 1000)
      unixSeconds  == NSub(seconds, NTP_EPOCH_OFFSET)
      date         == NewDate(ToDouble(NAdd(NMul(unixSeconds, 1000),
                                            NFloor(NAdd(milliseconds, NDiv(NInt(1), 2))))))
  IN  [ raw       |-> [seconds |-> seconds, fraction |-> fraction],
        unix      |-> [seconds |-> unixSeconds, milliseconds |-> milliseconds],
        date      |-> date,
        timestamp |-> getTime(date) ]

parseNTPTimestamp(buffer, offset) ==
  LET seconds      == readUInt32BE(buffer, offset)
      fraction     == readUInt32BE(buffer, offset + 4)
      milliseconds == NMul(NDiv(NDiv(fraction, 2^16), 2^16), 1000)
      unixSeconds  == NSub(seconds, NTP_EPOCH_OFFSET)
      date         == NewDate(ToDouble(NAdd(NMul(unixSeconds, 1000), milliseconds)))
  IN  [ raw       |-> [seconds |-> seconds, fraction |-> fraction],
        unix      |-> [seconds |-> unixSeconds, milliseconds |-> milliseconds],
        date      |-> date,
        timestamp |-> getTime(date) ]

\* Strings that the program computes are sequences of character codes.
KISS == << 75, 73, 83, 83 >>

\* Number.prototype.toString(16) of an unsigned 32-bit integer: no leading zeros
RECURSIVE StripZeros(_)
StripZeros(ds) ==
  IF Len(ds) > 1 /\ ds[1] = 0 THEN StripZeros(Tail(ds)) ELSE ds

HexDigits(id) ==
  LET q == NDiv(id, 1000)
  IN  StripZeros(<< q[6] \div 16, q[6] % 16,
                    q[5] \div 256, (q[5] \div 16) % 16, q[5] % 16,
                    q[4] \div 256, (q[4] \div 16) % 16, q[4] % 16 >>)

\* the characters 0-9 a-f of toString(16), and toUpperCase on them
HexChar(d) == IF d < 10 THEN 48 + d ELSE 97 + (d - 10)

toUpperCase(s) == [i \in 1..Len(s) |-> IF s[i] >= 97 /\ s[i] <= 122 THEN s[i] - 32 ELSE s[i]]

RECURSIVE padStart(_, _, _)
padStart(s, n, c) == IF Len(s) >= n THEN s ELSE padStart(<< c >> \o s, n, c)

\* Buffer.prototype.toString('ascii') clears the top bit of every byte
AsciiDecode(bytes) == [i \in 1..Len(bytes) |-> bytes[i] % 128]

\* String.prototype.replace(/\x00/g, '')
RECURSIVE RemoveNul(_)
RemoveNul(s) ==
  IF s = << >> THEN << >>
  ELSE IF Head(s) = 0 THEN RemoveNul(Tail(s))
  ELSE << Head(s) >> \o RemoveNul(Tail(s))

\* Buffer.alloc(4) followed by writeUInt32BE(id)
WordBytes(id) ==
  LET q == NDiv(id, 1000)
  IN  << q[6], q[5] \div 16, (q[5] % 16) * 16 + q[4] \div 256, q[4] % 256 >>

\* a variant of formatReferenceId that gives the four ASCII characters of a
\* stratum-0 packet, as for stratum 1
formatReferenceIdKissCode(id, stratum) ==
  IF stratum <= 1 THEN RemoveNul(AsciiDecode(WordBytes(id)))
  ELSE << 48, 120 >>
       \o padStart(toUpperCase([i \in 1..Len(HexDigits(id)) |-> HexChar(HexDigits(id)[i])]), 8, 48)

\* a variant of formatReferenceId that leaves the NUL characters in
formatReferenceIdKeepNul(id, stratum) ==
  IF stratum = 0 THEN KISS
  ELSE IF stratum = 1 THEN AsciiDecode(WordBytes(id))
  ELSE << 48, 120 >>
       \o padStart(toUpperCase([i \in 1..Len(HexDigits(id)) |-> HexChar(HexDigits(id)[i])]), 8, 48)

\* a variant of formatReferenceId that does not pad the digits
formatReferenceIdNoPad(id, stratum) ==
  IF stratum = 0 THEN KISS
  ELSE IF stratum = 1 THEN RemoveNul(AsciiDecode(WordBytes(id)))
  ELSE << 48, 120 >>
       \o toUpperCase([i \in 1..Len(HexDigits(id)) |-> HexChar(HexDigits(id)[i])])

formatReferenceId(id, stratum) ==
  IF stratum = 0 THEN KISS
  ELSE IF stratum = 1 THEN RemoveNul(AsciiDecode(WordBytes(id)))
  ELSE << 48, 120 >>
       \o padStart(toUpperCase([i \in 1..Len(HexDigits(id)) |-> HexChar(HexDigits(id)[i])]), 8, 48)

\* a variant of the header decoding that takes the version from two bits
PacketFieldsTwoBitVersion(buffer) ==
  LET firstByte == buffer[1]
  IN  [ header |->
          [ leapIndicator  |-> (firstByte \div 64) % 4,
            versionNumber  |-> (firstByte \div 8) % 4,
            mode           |-> firstByte % 8,
            stratum        |-> buffer[2],
            pollInterval   |-> buffer[3],
            precision      |-> buffer[4],
            rootDelay      |-> readUInt32BE(buffer, 4),
            rootDispersion |-> readUInt32BE(buffer, 8),
            referenceId    |-> formatReferenceId(readUInt32BE(buffer, 12), buffer[2]) ],
        timestamps |->
          [ reference |-> parseNTPTimestamp(buffer, 16),
            originate |-> parseNTPTimestamp(buffer, 24),
            receive   |-> parseNTPTimestamp(buffer, 32),
            transmit  |-> parseNTPTimestamp(buffer, 40) ],
        roundTripDelay |-> null,
        clockOffset    |-> null ]

\* a variant of the fields that leaves the two metrics out of the packet
PacketFieldsWithoutMetrics(buffer) ==
  [ header |->
      [ leapIndicator  |-> (buffer[1] \div 64) % 4,
        versionNumber  |-> (buffer[1] \div 8) % 8,
        mode           |-> buffer[1] % 8,
        stratum        |-> buffer[2],
        pollInterval   |-> buffer[3],
        precision      |-> buffer[4],
        rootDelay      |-> readUInt32BE(buffer, 4),
        rootDispersion |-> readUInt32BE(buffer, 8),
        referenceId    |-> formatReferenceId(readUInt32BE(buffer, 12), buffer[2]) ],
    timestamps |->
      [ reference |-> parseNTPTimestamp(buffer, 16),
        originate |-> parseNTPTimestamp(buffer, 24),
        receive   |-> parseNTPTimestamp(buffer, 32),
        transmit  |-> parseNTPTimestamp(buffer, 40) ],
    roundTripDelay |-> "undefined",
    clockOffset    |-> "undefined" ]

\* lines 75-115 of parsePacket: the fields of a buffer that passed the length check
PacketFields(buffer) ==
  LET firstByte     == buffer[1]
      leapIndicator == (firstByte \div 64) % 4
      versionNumber == (firstByte \div 8) % 8
      mode          == firstByte % 8
      stratum       == buffer[2]
      pollInterval  == buffer[3]
      precision     == buffer[4]
      rootDelay      == readUInt32BE(buffer, 4)
      rootDispersion == readUInt32BE(buffer, 8)
      referenceId    == readUInt32BE(buffer, 12)
  IN  [ header |->
          [ leapIndicator  |-> leapIndicator,
            versionNumber  |-> versionNumber,
            mode           |-> mode,
            stratum        |-> stratum,
            pollInterval   |-> pollInterval,
            precision      |-> precision,
            rootDelay      |-> rootDelay,
            rootDispersion |-> rootDispersion,
            referenceId    |-> formatReferenceId(referenceId, stratum) ],
        timestamps |->
          [ reference |-> parseNTPTimestamp(buffer, 16),
            originate |-> parseNTPTimestamp(buffer, 24),
            receive   |-> parseNTPTimestamp(buffer, 32),
            transmit  |-> parseNTPTimestamp(buffer, 40) ],
        roundTripDelay |-> null,
        clockOffset    |-> null ]

\* the offsets parsePacket reads with readUInt32BE
ReadOffsets == { 4, 8, 12, 16, 20, 24, 28, 32, 36, 40, 44 }

\* parsePacket after its length check: a read outside the buffer throws
ReadFields(buffer) ==
  IF \E o \in ReadOffsets : ~ InBounds(buffer, o)
  THEN Throw(ERR_OUT_OF_RANGE)
  ELSE Return(PacketFields(buffer))

\* a variant of parsePacket that refuses a packet of stratum 0
parsePacketRefuseKiss(buffer) ==
  IF Len(buffer) < 48 THEN Throw(InvalidPacket)
  ELSE IF buffer[2] = 0 THEN Throw("Kiss-of-death packet")
  ELSE ReadFields(buffer)

\* a variant of parsePacket whose length test is off by one
parsePacketOffByOne(buffer) ==
  IF Len(buffer) < 47 THEN Throw(InvalidPacket) ELSE ReadFields(buffer)

\* a variant of parsePacket that takes a datagram of 48 bytes and no other
parsePacketExactLength(buffer) ==
  IF Len(buffer) # 48 THEN Throw(InvalidPacket) ELSE ReadFields(buffer)

parsePacket(buffer) ==
  IF Len(buffer) < 48 THEN Throw(InvalidPacket) ELSE ReadFields(buffer)

\* the four times of calculateMetrics, lines 167-170
MetricTimes(parsed, clientOriginateTime, clientReceiveTime) ==
  [ t1 |-> NDiv(getTime(clientOriginateTime), 1000),
    t2 |-> NAdd(parsed.timestamps.receive.unix.seconds,
                NDiv(parsed.timestamps.receive.unix.milliseconds, 1000)),
    t3 |-> NAdd(parsed.timestamps.transmit.unix.seconds,
                NDiv(parsed.timestamps.transmit.unix.milliseconds, 1000)),
    t4 |-> NDiv(getTime(clientReceiveTime), 1000) ]

MetricsOf(roundTripDelay, clockOffset) ==
  [ roundTripDelay   |-> roundTripDelay,
    clockOffset      |-> clockOffset,
    roundTripDelayMs |-> NMul(roundTripDelay, 1000),
    clockOffsetMs    |-> NMul(clockOffset, 1000) ]

\* Variants of calculateMetrics: the server's two timestamps exchanged; the
\* offset not halved; the milliseconds of the server's timestamps added as if
\* they were seconds; the offset taken as local minus server.
calculateMetricsExchanged(parsed, clientOriginateTime, clientReceiveTime) ==
  LET t == MetricTimes(parsed, clientOriginateTime, clientReceiveTime)
  IN  MetricsOf(NSub(NSub(t.t4, t.t1), NSub(t.t2, t.t3)),
                NDiv(NAdd(NSub(t.t3, t.t1), NSub(t.t2, t.t4)), 2))

calculateMetricsNotHalved(parsed, clientOriginateTime, clientReceiveTime) ==
  LET t == MetricTimes(parsed, clientOriginateTime, clientReceiveTime)
  IN  MetricsOf(NSub(NSub(t.t4, t.t1), NSub(t.t3, t.t2)),
                NAdd(NSub(t.t2, t.t1), NSub(t.t3, t.t4)))

calculateMetricsWholeMs(parsed, clientOriginateTime, clientReceiveTime) ==
  LET t  == MetricTimes(parsed, clientOriginateTime, clientReceiveTime)
      t2 == NAdd(parsed.timestamps.receive.unix.seconds,
                 parsed.timestamps.receive.unix.milliseconds)
      t3 == NAdd(parsed.timestamps.transmit.unix.seconds,
                 parsed.timestamps.transmit.unix.milliseconds)
  IN  MetricsOf(NSub(NSub(t.t4, t.t1), NSub(t3, t2)),
                NDiv(NAdd(NSub(t2, t.t1), NSub(t3, t.t4)), 2))

calculateMetricsLocalMinusServer(parsed, clientOriginateTime, clientReceiveTime) ==
  LET t == MetricTimes(parsed, clientOriginateTime, clientReceiveTime)
  IN  MetricsOf(NSub(NSub(t.t4, t.t1), NSub(t.t3, t.t2)),
                NDiv(NAdd(NSub(t.t1, t.t2), NSub(t.t4, t.t3)), 2))

calculateMetrics(parsed, clientOriginateTime, clientReceiveTime) ==
  LET t == MetricTimes(parsed, clientOriginateTime, clientReceiveTime)
      roundTripDelay == NSub(NSub(t.t4, t.t1), NSub(t.t3, t.t2))
      clockOffset    == NDiv(NAdd(NSub(t.t2, t.t1), NSub(t.t3, t.t4)), 2)
  IN  MetricsOf(roundTripDelay, clockOffset)

(***************************************************************************)
(* client.ts.  An error is the record of its message.                      *)
(***************************************************************************)
undefined == "undefined"

DefaultHost == "time.hixbe.com"

DefaultFallbackServers == << "time.google.com", "pool.ntp.org" >>

Message(text) == [kind |-> "text", text |-> text]

NoError == [kind |-> "none"]

\* `NTP request timeout after ${this.timeout}ms to ${host}`
TimeoutError(timeout, host) == [kind |-> "timeout", timeout |-> timeout, host |-> host]

\* `NTP query failed for all servers (${servers.join(', ')}): ${lastError?.message}`
AllServersFailed(servers, lastError) ==
  [kind |-> "allFailed", servers |-> servers, message |-> lastError]

\* the constructor: an absent (or falsy) option takes its default
NTPClient(cfg) ==
  [ host            |-> IF cfg.host = undefined THEN DefaultHost ELSE cfg.host,
    port            |-> IF cfg.port = 0 THEN 123 ELSE cfg.port,
    timeout         |-> IF cfg.timeout = 0 THEN 5000 ELSE cfg.timeout,
    fallbackServers |-> IF cfg.fallbackServers = << undefined >>
                        THEN DefaultFallbackServers ELSE cfg.fallbackServers ]

MaxUInt32 == NWord(65535, 65535)

\* Buffer.prototype.writeUInt32BE(value, offset) on a buffer long enough
writeUInt32BE(buffer, value, offset) ==
  IF NLess(value, NZero) \/ NLess(MaxUInt32, value)
  THEN Throw(Message(ERR_OUT_OF_RANGE))
  ELSE Return([i \in 1..Len(buffer) |->
                 IF i > offset /\ i <= offset + 4 THEN WordBytes(value)[i - offset]
                 ELSE buffer[i]])

\* a variant of createRequestPacket whose first byte is 0x1B
createRequestPacketFirstByte1B(clock, random) ==
  LET packet      == [i \in 1..48 |-> IF i = 1 THEN 27 ELSE 0]
      unixSeconds == NFloor(NDiv(clock, 1000))
      ntpSeconds  == NAdd(unixSeconds, NTP_EPOCH_OFFSET)
      fraction    == NMul(NMul(random, 2^16), 2^16)
      w1          == writeUInt32BE(packet, ntpSeconds, 40)
  IN  IF w1.threw THEN w1 ELSE writeUInt32BE(w1.value, NFloor(fraction), 44)

\* a variant of createRequestPacket that writes the Unix seconds as they are
createRequestPacketUnixSeconds(clock, random) ==
  LET packet      == [i \in 1..48 |-> IF i = 1 THEN 35 ELSE 0]
      unixSeconds == NFloor(NDiv(clock, 1000))
      fraction    == NMul(NMul(random, 2^16), 2^16)
      w1          == writeUInt32BE(packet, unixSeconds, 40)
  IN  IF w1.threw THEN w1 ELSE writeUInt32BE(w1.value, NFloor(fraction), 44)

\* createRequestPacket; clock is Date.now(), random is Math.random()
createRequestPacket(clock, random) ==
  LET packet      == [i \in 1..48 |-> IF i = 1 THEN 35 ELSE 0]
      unixSeconds == NFloor(NDiv(clock, 1000))
      ntpSeconds  == NAdd(unixSeconds, NTP_EPOCH_OFFSET)
      fraction    == NMul(NMul(random, 2^16), 2^16)
      w1          == writeUInt32BE(packet, ntpSeconds, 40)
  IN  IF w1.threw THEN w1 ELSE writeUInt32BE(w1.value, NFloor(fraction), 44)

ERR_SOCKET_DGRAM_NOT_RUNNING == "ERR_SOCKET_DGRAM_NOT_RUNNING"

ERR_SOCKET_BAD_PORT == "ERR_SOCKET_BAD_PORT"

\* dgram's Socket.send validates the port before anything else
SendThrows(port) == port < 1 \/ port > 65535

\* One attempt (one call of queryServer): its socket, timer, send and promise.
\* dgram.createSocket, setTimeout and the two client.on calls of lines 65-97
NewAttempt(host, clock) ==
  [ host      |-> host,
    sock      |-> "open",
    closes    |-> 0,
    timer     |-> "armed",
    send      |-> "none",
    request   |-> << >>,
    promise   |-> "pending",
    reason    |-> NoError,
    startedAt |-> clock ]

\* client.close(): throws on a socket that is already closed
close(a) ==
  IF a.sock = "closed"
  THEN Throw([a EXCEPT !.closes = @ + 1])
  ELSE Return([a EXCEPT !.sock = "closed", !.closes = @ + 1])

clearTimeout(a) == IF a.timer = "armed" THEN [a EXCEPT !.timer = "cleared"] ELSE a

\* a promise settles once: reject and resolve on a settled promise do nothing
reject(a, error) ==
  IF a.promise = "pending" THEN [a EXCEPT !.promise = "rejected", !.reason = error] ELSE a

resolve(a) == IF a.promise = "pending" THEN [a EXCEPT !.promise = "resolved"] ELSE a

\* clearTimeout(timeoutId); client.close(); reject(error): lines 94-96, 105-107, 111-113.
\* The result is the attempt and whether the handler threw.
FailAttempt(a, error) ==
  LET c == close(clearTimeout(a))
  IN  IF c.threw THEN [a |-> c.error, threw |-> TRUE]
      ELSE [a |-> reject(c.value, error), threw |-> FALSE]

\* the executor of queryServer's promise, lines 64-115
queryServer(cl, host, clock, random) ==
  LET a0 == NewAttempt(host, clock)
      Send(pkt) ==
        IF pkt.threw THEN reject(a0, pkt.error)
        ELSE IF SendThrows(cl.port)
             THEN FailAttempt([a0 EXCEPT !.request = pkt.value], Message(ERR_SOCKET_BAD_PORT)).a
             ELSE [a0 EXCEPT !.request = pkt.value, !.send = "pending"]
  IN  Send(createRequestPacket(clock, random))

\* a variant of the message handler's result that always names the primary
QueryResultPrimary(cl, a, buffer, address, clock) ==
  LET parsed == parsePacket(buffer)
  IN  IF parsed.threw THEN Throw(Message(parsed.error))
      ELSE Return([ buffer              |-> buffer,
                    parsed              |-> parsed.value,
                    serverAddress       |-> address,
                    clientReceiveTime   |-> NewDate(clock),
                    clientOriginateTime |-> NewDate(NSub(clock, NDiv(NInt(cl.timeout), 2))),
                    usedServer          |-> cl.host ])

\* the value the message handler resolves with, lines 76-87
QueryResult(cl, a, buffer, address, clock) ==
  LET Result(parsed) ==
        IF parsed.threw THEN Throw(Message(parsed.error))
        ELSE Return([ buffer              |-> buffer,
                      parsed              |-> parsed.value,
                      serverAddress       |-> address,
                      clientReceiveTime   |-> NewDate(clock),
                      clientOriginateTime |-> NewDate(NSub(clock, NDiv(NInt(cl.timeout), 2))),
                      usedServer          |-> a.host ])
  IN  Result(parsePacket(buffer))

\* a variant of the loop that starts the attempts on all servers at once
RECURSIVE QueryLoopFanOut(_, _, _, _, _, _, _)
QueryLoopFanOut(cl, servers, i, atts, lastErr, clock, rnd) ==
  IF i > Len(servers)
  THEN [att |-> atts, lastError |-> lastErr, pc |-> "running", outcome |-> Pending]
  ELSE QueryLoopFanOut(cl, servers, i + 1,
                       Append(atts, queryServer(cl, servers[i], clock, rnd[i])),
                       lastErr, clock, rnd)

\* a variant of the loop that, with the list exhausted, throws the last
\* attempt's error as it is
RECURSIVE QueryLoopBareError(_, _, _, _, _, _, _)
QueryLoopBareError(cl, servers, i, atts, lastErr, clock, rnd) ==
  IF i > Len(servers)
  THEN [att |-> atts, lastError |-> lastErr, pc |-> "rejected", outcome |-> Throw(lastErr)]
  ELSE LET a == queryServer(cl, servers[i], clock, rnd[i])
       IN  IF a.promise = "rejected"
           THEN QueryLoopBareError(cl, servers, i + 1, Append(atts, a), a.reason, clock, rnd)
           ELSE [att |-> Append(atts, a), lastError |-> lastErr, pc |-> "running",
                 outcome |-> Pending]

\* the loop of query() from server i on, lines 45-57: it runs until an attempt
\* is left pending or the list is exhausted.  rnd[i] is attempt i's Math.random().
RECURSIVE QueryLoop(_, _, _, _, _, _, _)
QueryLoop(cl, servers, i, atts, lastErr, clock, rnd) ==
  IF i > Len(servers)
  THEN [att |-> atts, lastError |-> lastErr, pc |-> "rejected",
        outcome |-> Throw(AllServersFailed(servers, lastErr))]
  ELSE LET Await(a) ==
             IF a.promise = "rejected"
             THEN QueryLoop(cl, servers, i + 1, Append(atts, a), a.reason, clock, rnd)
             ELSE [att |-> Append(atts, a), lastError |-> lastErr, pc |-> "running",
                   outcome |-> Pending]
       IN  Await(queryServer(cl, servers[i], clock, rnd[i]))

\* getTime and getOffset on the result of their query, lines 123 and 131-133
getTimeOf(result) == result.parsed.timestamps.transmit.date

\* a variant of getOffset that subtracts the server's time from the local time
getOffsetOfLocalMinusServer(result) ==
  LET serverTime == getTime(result.parsed.timestamps.transmit.date)
      localTime  == getTime(result.clientReceiveTime)
  IN  NSub(localTime, serverTime)

getOffsetOf(result) ==
  LET serverTime == getTime(result.parsed.timestamps.transmit.date)
      localTime  == getTime(result.clientReceiveTime)
  IN  NSub(serverTime, localTime)

\* what the called method settles with, given what its query() settled with
ApiReturn(method, outcome) ==
  IF outcome = Pending \/ outcome.threw \/ method = "query" THEN outcome
  ELSE IF method = "getTime" THEN Return(getTimeOf(outcome.value))
  ELSE Return(getOffsetOf(outcome.value))

(***************************************************************************)
(* cli/index.ts: what the command-line driver prints for a query result.   *)
(* A printed number is the number; toFixed is the rounding it does.        *)
(***************************************************************************)
\* x.toFixed(digits), in units of 10^-digits (scale = 10^digits): the integer
\* nearest to x * scale, a half going away from zero
toFixed(x, scale) ==
  LET Nearest(m) == NFloor(NAdd(NMul(m, scale), NDiv(NInt(1), 2)))
  IN  IF NSign(x) < 0 THEN NNeg(Nearest(NNeg(x))) ELSE Nearest(x)

\* `${offset > 0 ? '+' : ''}`
PlusSign(offset) == IF NSign(offset) > 0 THEN "+" ELSE ""

\* result.usedServer || this.options.server
ServerShown(result, options) ==
  IF result.usedServer = "" THEN options.server ELSE result.usedServer

\* outputDefault: the offset line shows (offset / 1000).toFixed(3) seconds
outputDefault(result, options) ==
  LET tx     == result.parsed.timestamps.transmit
      offset == NSub(result.parsed.timestamps.transmit.timestamp,
                     getTime(result.clientReceiveTime))
  IN  [ kind     |-> "default",
        server   |-> << result.serverAddress, ServerShown(result, options) >>,
        sign     |-> PlusSign(offset),
        offsetMs |-> toFixed(NDiv(offset, 1000), 1000),
        stratum  |-> result.parsed.header.stratum ]

\* outputOffset: the sign on one line, the offset on the next
outputOffset(result, options) ==
  LET offset == NSub(result.parsed.timestamps.transmit.timestamp,
                     getTime(result.clientReceiveTime))
  IN  [ kind |-> "offset", sign |-> PlusSign(offset), offsetMs |-> offset ]

\* a variant of outputJSON whose offset is taken from clientOriginateTime
outputJSONFromOriginate(result, options) ==
  [ kind      |-> "json",
    timestamp |-> result.parsed.timestamps.transmit.timestamp,
    server    |-> << result.serverAddress, ServerShown(result, options) >>,
    offsetMs  |-> NSub(result.parsed.timestamps.transmit.timestamp,
                       getTime(result.clientOriginateTime)),
    version   |-> result.parsed.header.versionNumber ]

outputJSON(result, options) ==
  [ kind      |-> "json",
    timestamp |-> result.parsed.timestamps.transmit.timestamp,
    server    |-> << result.serverAddress, ServerShown(result, options) >>,
    offsetMs  |-> NSub(result.parsed.timestamps.transmit.timestamp,
                       getTime(result.clientReceiveTime)),
    version   |-> result.parsed.header.versionNumber ]

\* outputVerbose prints timestamps, raw bytes and header, and no offset
outputVerbose(result, options) ==
  [ kind     |-> "verbose",
    transmit |-> result.parsed.timestamps.transmit.date,
    rawBytes |-> SubSeq(result.buffer, 41, 48),
    stratum  |-> result.parsed.header.stratum ]

\* the line continuousMode prints for a result, count already incremented
continuousLine(count, result, options) ==
  LET offset == NSub(getTime(result.parsed.timestamps.transmit.date),
                     getTime(result.clientReceiveTime))
  IN  [ kind     |-> "continuous",
        count    |-> count,
        status   |-> IF NLess(NInt(500), offset) \/ NLess(offset, NInt(-500))
                     THEN "warning" ELSE "ok",
        time     |-> result.parsed.timestamps.transmit.date,
        server   |-> ServerShown(result, options),
        sign     |-> PlusSign(offset),
        offsetMs |-> toFixed(offset, 1) ]

\* what singleQuery prints for a result: lines 530-538
singleOutput(result, options) ==
  IF options.json THEN outputJSON(result, options)
  ELSE IF options.offset THEN outputOffset(result, options)
  ELSE IF options.verbose THEN outputVerbose(result, options)
  ELSE outputDefault(result, options)

(***************************************************************************)
(* The inputs of the model: configurations, clock readings, datagrams.     *)
(***************************************************************************)
MaxFallbacks == 1

MaxTicks == 1

MaxBufferLength == 50

FallbackNames == { "ntp-b.example" }

RECURSIVE SeqsUpTo(_, _)
SeqsUpTo(S, n) ==
  IF n = 0 THEN { << >> }
  ELSE SeqsUpTo(S, n - 1)
       \cup { Append(q, e) : q \in { t \in SeqsUpTo(S, n - 1) : Len(t) = n - 1 }, e \in S }

\* The configurations: no option at all; a host and a timeout, with every
\* fallback list or none; a port that send() refuses.  Port 0 and timeout 0
\* stand for an option that is absent.
Configs ==
  { [host |-> undefined, port |-> 0, timeout |-> 0, fallbackServers |-> << undefined >>] }
  \cup [ host            : { "ntp-a.example" },
         port            : { 0 },
         timeout         : { 3001 },
         fallbackServers : { << undefined >> } \cup SeqsUpTo(FallbackNames, MaxFallbacks) ]
  \cup { [host |-> "ntp-a.example", port |-> 70000, timeout |-> 0,
          fallbackServers |-> << "ntp-b.example" >>] }

Methods == { "query", "getTime", "getOffset" }

\* 2025-11-06T07:00:00Z, and the last millisecond whose NTP seconds fit 32 bits
\* (2036-02-07T06:28:15.999Z)
ClockStarts ==
  { NMul(NWord(26892, 18288), 1000),
    NAdd(NMul(NWord(31829, 33151), 1000), NInt(999)) }

TickSteps == { 1000 }

\* Math.random(): a value (2k + 1) / 2^33 in [0, 1)
RandomOf(k) ==
  NDiv(NDiv(NDiv(NAdd(NMul(NAdd(NWord(4660, 22136), NInt(k)), 2), NInt(1)), 2^16), 2^16), 2)

Randoms == { RandomOf(0) }

Addresses == { "203.0.113.7" }

\* a datagram: header bytes, reference identifier, receive and transmit
\* timestamps, each timestamp << seconds high half, low half, fraction high, low >>
HalfBytes(h) == << h \div 256, h % 256 >>

StampBytes(w) == HalfBytes(w[1]) \o HalfBytes(w[2]) \o HalfBytes(w[3]) \o HalfBytes(w[4])

Datagram(first, stratum, ref, recv, xmit) ==
  << first, stratum, 6, 233 >> \o << 0, 0, 1, 0 >> \o << 0, 0, 2, 0 >> \o ref
    \o StampBytes(<< 0, 0, 0, 0 >>) \o StampBytes(<< 0, 0, 0, 0 >>)
    \o StampBytes(recv) \o StampBytes(xmit)

\* a server's reply of 2025-11-06T07:00:00.5Z, a kiss-of-death reply, a short one
GoodReply ==
  Datagram(36, 2, << 216, 239, 35, 12 >>,
           << 60598, 50672, 32768, 0 >>, << 60598, 50672, 32784, 1 >>)

KissReply ==
  Datagram(228, 0, << 68, 69, 78, 89 >>,
           << 0, 0, 0, 0 >>, << 60598, 50672, 0, 0 >>)

ShortReply == SubSeq(GoodReply, 1, 47)

Replies == { GoodReply, KissReply, ShortReply }

TransportErrors == { Message("EHOSTUNREACH") }

SendErrors == { Message("ENOTFOUND") }

\* the buffers given to parsePacket: every prefix of a few byte streams
Stream(bytes, n) == [i \in 1..n |-> IF i <= Len(bytes) THEN bytes[i] ELSE (7 * i) % 256]

\* and a reply with each value of each of its first four bytes
HeaderVariants ==
  { [GoodReply EXCEPT ![k] = b] : k \in 1..4, b \in 0..255 }

\* and replies of a few strata with a few reference identifiers: "GPS" and
\* "PPS" padded with NUL, NUL alone, a NUL inside, bytes above 127, "DENY",
\* and numbers small and large
ReferenceIds ==
  { << 71, 80, 83, 0 >>, << 80, 80, 83, 0 >>, << 0, 0, 0, 0 >>, << 71, 0, 83, 0 >>,
    << 199, 80, 83, 128 >>, << 68, 69, 78, 89 >>, << 0, 0, 0, 255 >>,
    << 10, 11, 12, 13 >>, << 216, 239, 35, 12 >>, << 255, 255, 255, 255 >> }

ReferenceVariants ==
  { Datagram(36, stratum, ref, << 60598, 50672, 32768, 0 >>, << 60598, 50672, 32784, 1 >>) :
      stratum \in { 0, 1, 2, 15, 255 }, ref \in ReferenceIds }

\* and replies whose timestamps have seconds of 0, 1, 2208988799, 2208988800,
\* 2^31, 3971401200 and 2^32 - 1, and fractions of 0, 1, 0x40100000, 0x80000000
\* and 0xFFFFFFFF; reference and transmit hold one timestamp, originate and
\* receive another
StampSeconds ==
  { << 0, 0 >>, << 0, 1 >>, << 33706, 32383 >>, << 33706, 32384 >>, << 32768, 0 >>,
    << 60598, 50672 >>, << 65535, 65535 >> }

StampFractions ==
  { << 0, 0 >>, << 0, 1 >>, << 16400, 0 >>, << 32768, 0 >>, << 65535, 65535 >> }

Stamps == { s \o f : s \in StampSeconds, f \in StampFractions }

TimestampVariants ==
  { SubSeq(GoodReply, 1, 16) \o StampBytes(a) \o StampBytes(b) \o StampBytes(b) \o StampBytes(a) :
      a \in Stamps, b \in Stamps }

\* and replies followed by one or two more bytes
TrailerVariants ==
  { bytes \o trailer : bytes \in { GoodReply, KissReply },
                       trailer \in { << 0 >>, << 255 >>, << 0, 0 >>, << 255, 255 >> } }

ParserBuffers ==
  { SubSeq(Stream(bytes, MaxBufferLength), 1, n) :
      bytes \in { GoodReply, KissReply, << >> }, n \in 0..MaxBufferLength }
  \cup HeaderVariants
  \cup ReferenceVariants
  \cup TimestampVariants
  \cup TrailerVariants

\* the arguments of calculateMetrics: a packet parsed from a datagram, or a
\* packet written out by the caller, and the two client times in milliseconds.
\* Wire timestamps are 1000 s after the Unix epoch with fractions of 0, 1/8,
\* 1/4, 1/4 + 2^-12 and 1/2 second; a literal timestamp is << seconds, milliseconds >>.
WireStamps ==
  { << 33706, 33384, f, 0 >> : f \in { 0, 8192, 16384, 16400, 32768 } }

LiteralStamps == { << 1000, 100 >> }

ClientSendTimes == { 1000000, 999875 }

ClientReceiveTimes == { 1000250 }

MetricInputs ==
  [ kind : { "wire" }, recv : WireStamps, xmit : WireStamps,
    t1 : ClientSendTimes, t4 : ClientReceiveTimes ]
  \cup [ kind : { "literal" }, recv : LiteralStamps, xmit : LiteralStamps,
         t1 : ClientSendTimes, t4 : ClientReceiveTimes ]

\* a parsed timestamp as a caller writes it, from Unix seconds and milliseconds
LiteralStamp(w) ==
  [ raw       |-> [seconds |-> NAdd(NInt(w[1]), NTP_EPOCH_OFFSET), fraction |-> NZero],
    unix      |-> [seconds |-> NInt(w[1]), milliseconds |-> NInt(w[2])],
    date      |-> NewDate(NAdd(NMul(NInt(w[1]), 1000), NInt(w[2]))),
    timestamp |-> getTime(NewDate(NAdd(NMul(NInt(w[1]), 1000), NInt(w[2])))) ]

InputPacket(in) ==
  IF in.kind = "wire"
  THEN PacketFields(Datagram(36, 2, << 216, 239, 35, 12 >>, in.recv, in.xmit))
  ELSE [ PacketFields(Datagram(36, 2, << 216, 239, 35, 12 >>, << 0, 0, 0, 0 >>, << 0, 0, 0, 0 >>))
           EXCEPT !.timestamps.receive = LiteralStamp(in.recv),
                  !.timestamps.transmit = LiteralStamp(in.xmit) ]

(***************************************************************************)
(* State.                                                                  *)
(***************************************************************************)
VARIABLES
  config,     \* the NTPClientConfig the client was constructed with
  client,     \* the fields of the NTPClient
  now,        \* Date.now()
  ticks,      \* how often the clock has advanced
  method,     \* the method called: query, getTime or getOffset
  pc,         \* query(): idle, running, resolved or rejected
  servers,    \* query()'s list of servers
  lastError,  \* query()'s lastError
  att,        \* the attempts of the call, in the order they were started
  outcome,    \* what query() settled with
  returned,   \* what the called method settled with
  uncaught,   \* a callback threw: the process ends with an uncaught exception
  fired,      \* the attempts of the call whose timer callback has run
  buffer,     \* the buffer given to parsePacket
  parsed,     \* what parsePacket did with it
  mIn,        \* the arguments of calculateMetrics
  mOut,       \* what calculateMetrics returned
  mOff,       \* what getOffset computes from the same packet and receive time
  random,     \* the Math.random() given to createRequestPacket
  request,    \* what createRequestPacket did
  other,      \* a second call on the same client, between its callbacks
  cli         \* the command-line driver: its options, where it is, what it printed

clientVars == << config, client, now, ticks, method, pc, servers, lastError, att,
                 outcome, returned, uncaught, fired >>

parserVars == << buffer, parsed >>

metricVars == << mIn, mOut, mOff >>

requestVars == << random, request >>

callVars == << other, cli >>

vars == << clientVars, parserVars, metricVars, requestVars, callVars >>

NoInput == [kind |-> "none"]

ClientIdle ==
  /\ config = [host |-> undefined, port |-> 0, timeout |-> 0,
               fallbackServers |-> << undefined >>]
  /\ client = NTPClient(config)
  /\ now = NZero
  /\ ticks = 0
  /\ method = "query"
  /\ pc = "idle"
  /\ servers = << >>
  /\ lastError = NoError
  /\ att = << >>
  /\ outcome = Pending
  /\ returned = Pending
  /\ uncaught = FALSE
  /\ fired = { }

ParserIdle == buffer = << >> /\ parsed = Pending

MetricsIdle == mIn = NoInput /\ mOut = Pending /\ mOff = Pending

RequestIdle == random = NZero /\ request = Pending

\* no second call
NoCall == [pc |-> "none"]

\* no command-line driver
NoCli == [phase |-> "none"]

CallIdle == other = NoCall /\ cli = NoCli

(***************************************************************************)
(* The client: one call of query(), getTime() or getOffset() on a client.  *)
(***************************************************************************)
Init ==
  /\ config \in Configs
  /\ client = NTPClient(config)
  /\ now \in ClockStarts
  /\ ticks = 0
  /\ method \in Methods
  /\ pc = "idle"
  /\ servers = << >>
  /\ lastError = NoError
  /\ att = << >>
  /\ outcome = Pending
  /\ returned = Pending
  /\ uncaught = FALSE
  /\ fired = { }
  /\ ParserIdle
  /\ MetricsIdle
  /\ RequestIdle
  /\ CallIdle

\* an attempt per server: the default list holds two fallbacks
AttemptIds == 1..(1 + IF MaxFallbacks > 2 THEN MaxFallbacks ELSE 2)

\* the values of Math.random() in the attempts of a call: one after the other,
\* each different from the one before
RandomDraws == { [i \in AttemptIds |-> RandomOf(i)] }

\* query() is called: lines 42-43, then the loop from the first server
Call(rnd) ==
  /\ pc = "idle"
  /\ ~ uncaught
  /\ LET list == << client.host >> \o client.fallbackServers
         q    == QueryLoop(client, list, 1, << >>, NoError, now, rnd)
     IN  /\ servers' = list
         /\ att' = q.att
         /\ lastError' = q.lastError
         /\ pc' = q.pc
         /\ outcome' = q.outcome
         /\ returned' = ApiReturn(method, q.outcome)
  /\ UNCHANGED << config, client, now, ticks, method, uncaught, fired, parserVars, metricVars, requestVars, callVars >>

\* A callback of attempt i has run and left the attempt as r.a (r.threw: it
\* threw; r.result: the value it resolved with).  If it settled the promise
\* query() awaits, query() goes on: it returns the result, or takes the next server.
Continue(i, r, rnd) ==
  LET att2 == [att EXCEPT ![i] = r.a]
      awaited == pc = "running" /\ i = Len(att) /\ att[i].promise = "pending"
  IN  IF r.threw
      THEN /\ att' = att2
           /\ uncaught' = TRUE
           /\ UNCHANGED << servers, lastError, pc, outcome, returned >>
      ELSE IF awaited /\ r.a.promise = "rejected"
      THEN LET q == QueryLoop(client, servers, i + 1, att2, r.a.reason, now, rnd)
           IN  /\ att' = q.att
               /\ lastError' = q.lastError
               /\ pc' = q.pc
               /\ outcome' = q.outcome
               /\ returned' = ApiReturn(method, q.outcome)
               /\ UNCHANGED << servers, uncaught >>
      ELSE IF awaited /\ r.a.promise = "resolved"
      THEN /\ att' = att2
           /\ pc' = "resolved"
           /\ outcome' = r.result
           /\ returned' = ApiReturn(method, r.result)
           /\ UNCHANGED << servers, lastError, uncaught >>
      ELSE /\ att' = att2
           /\ UNCHANGED << servers, lastError, pc, outcome, returned, uncaught >>

\* the timer of attempt i fires: lines 66-69
OnTimeout(a, timeout) ==
  LET c == close([a EXCEPT !.timer = "fired"])
  IN  IF c.threw THEN [a |-> c.error, threw |-> TRUE, result |-> Pending]
      ELSE [a |-> reject(c.value, TimeoutError(timeout, a.host)), threw |-> FALSE,
            result |-> Pending]

TimerFires(i, rnd) ==
  /\ ~ uncaught
  /\ i \in 1..Len(att)
  /\ att[i].timer = "armed"
  /\ Continue(i, OnTimeout(att[i], client.timeout), rnd)
  /\ fired' = fired \cup { i }
  /\ UNCHANGED << config, client, now, ticks, method, parserVars, metricVars, requestVars, callVars >>

\* a variant of the message handler whose catch swallows the parser's error
OnMessageSwallowError(cl, a, buf, address, clock) ==
  LET c == close(clearTimeout(a))
      res == QueryResult(cl, a, buf, address, clock)
  IN  IF c.threw THEN [a |-> c.error, threw |-> TRUE, result |-> Pending]
      ELSE IF res.threw THEN [a |-> c.value, threw |-> FALSE, result |-> Pending]
      ELSE [a |-> resolve(c.value), threw |-> FALSE, result |-> res]

\* a variant of the message handler that rejects a datagram whose originate
\* timestamp is not the transmit timestamp of the request
OnMessageCheckOriginate(cl, a, buf, address, clock) ==
  LET c == close(clearTimeout(a))
      Settle(res) ==
        IF res.threw THEN [a |-> reject(c.value, res.error), threw |-> FALSE,
                           result |-> Pending]
        ELSE IF SubSeq(buf, 25, 32) # SubSeq(a.request, 41, 48)
        THEN [a |-> reject(c.value, Message("originate mismatch")), threw |-> FALSE,
              result |-> Pending]
        ELSE [a |-> resolve(c.value), threw |-> FALSE, result |-> res]
  IN  IF c.threw THEN [a |-> c.error, threw |-> TRUE, result |-> Pending]
      ELSE Settle(QueryResult(cl, a, buf, address, clock))

\* a datagram arrives on the socket of attempt i: lines 71-91
OnMessage(cl, a, buf, address, clock) ==
  LET c == close(clearTimeout(a))
      Settle(res) ==
        IF res.threw THEN [a |-> reject(c.value, res.error), threw |-> FALSE,
                           result |-> Pending]
        ELSE [a |-> resolve(c.value), threw |-> FALSE, result |-> res]
  IN  IF c.threw THEN [a |-> c.error, threw |-> TRUE, result |-> Pending]
      ELSE Settle(QueryResult(cl, a, buf, address, clock))

\* a variant of Receive that makes the server that answered the client's host
ReceivePromoteServer(i, buf, address, rnd) ==
  /\ ~ uncaught
  /\ i \in 1..Len(att)
  /\ att[i].sock = "open"
  /\ att[i].send = "pending"
  /\ Continue(i, OnMessage(client, att[i], buf, address, now), rnd)
  /\ client' = [client EXCEPT !.host = att[i].host]
  /\ UNCHANGED << config, now, ticks, method, fired, parserVars, metricVars, requestVars, callVars >>

Receive(i, buf, address, rnd) ==
  /\ ~ uncaught
  /\ i \in 1..Len(att)
  /\ att[i].sock = "open"
  /\ att[i].send = "pending"
  /\ Continue(i, OnMessage(client, att[i], buf, address, now), rnd)
  /\ UNCHANGED << config, client, now, ticks, method, fired, parserVars, metricVars, requestVars, callVars >>

\* the socket of attempt i emits 'error': lines 93-97
OnError(a, error) ==
  LET f == FailAttempt(a, error)
  IN  [a |-> f.a, threw |-> f.threw, result |-> Pending]

SocketError(i, error, rnd) ==
  /\ ~ uncaught
  /\ i \in 1..Len(att)
  /\ att[i].sock = "open"
  /\ att[i].send = "pending"
  /\ Continue(i, OnError(att[i], error), rnd)
  /\ UNCHANGED << config, client, now, ticks, method, fired, parserVars, metricVars, requestVars, callVars >>

\* the callback of attempt i's send runs with an error: lines 103-109.  (Without
\* an error it does nothing.)  dgram reports a failed lookup even after the
\* socket was closed.
OnSendError(a, error) ==
  LET f == FailAttempt([a EXCEPT !.send = "failed"], error)
  IN  [a |-> f.a, threw |-> f.threw, result |-> Pending]

SendFails(i, error, rnd) ==
  /\ ~ uncaught
  /\ i \in 1..Len(att)
  /\ att[i].send = "pending"
  /\ Continue(i, OnSendError(att[i], error), rnd)
  /\ UNCHANGED << config, client, now, ticks, method, fired, parserVars, metricVars, requestVars, callVars >>

\* the wall clock advances while a call is under way
Tick(step) ==
  /\ ~ uncaught
  /\ pc = "running"
  /\ ticks < MaxTicks
  /\ now' = NAdd(now, NInt(step))
  /\ ticks' = ticks + 1
  /\ UNCHANGED << config, client, method, pc, servers, lastError, att, outcome,
                  returned, uncaught, fired, parserVars, metricVars, requestVars, callVars >>

Next ==
  \/ \E rnd \in RandomDraws : Call(rnd)
  \/ \E i \in AttemptIds, rnd \in RandomDraws : TimerFires(i, rnd)
  \/ \E i \in AttemptIds, buf \in Replies, address \in Addresses,
        rnd \in RandomDraws : Receive(i, buf, address, rnd)
  \/ \E i \in AttemptIds, error \in TransportErrors, rnd \in RandomDraws :
        SocketError(i, error, rnd)
  \/ \E i \in AttemptIds, error \in SendErrors, rnd \in RandomDraws :
        SendFails(i, error, rnd)
  \/ \E step \in TickSteps : Tick(step)

Spec == Init /\ [][Next]_vars

(***************************************************************************)
(* The parser on its own: parsePacket applied to a buffer.                 *)
(***************************************************************************)
InitParser ==
  /\ buffer \in ParserBuffers
  /\ parsed = Pending
  /\ ClientIdle
  /\ MetricsIdle
  /\ RequestIdle
  /\ CallIdle

ParsePacket ==
  /\ parsed = Pending
  /\ parsed' = parsePacket(buffer)
  /\ UNCHANGED << buffer, clientVars, metricVars, requestVars, callVars >>

NextParser == ParsePacket

SpecParser == InitParser /\ [][NextParser]_vars

(***************************************************************************)
(* The metrics on their own: calculateMetrics, and the offset of getOffset,*)
(* on one packet and one pair of client times.                             *)
(***************************************************************************)
InitMetrics ==
  /\ mIn \in MetricInputs
  /\ mOut = Pending
  /\ mOff = Pending
  /\ ClientIdle
  /\ ParserIdle
  /\ RequestIdle
  /\ CallIdle

CalculateMetrics ==
  /\ mOut = Pending
  /\ mOut' = Return(calculateMetrics(InputPacket(mIn), NewDate(NInt(mIn.t1)),
                                     NewDate(NInt(mIn.t4))))
  /\ UNCHANGED << mIn, mOff, clientVars, parserVars, requestVars, callVars >>

GetOffset ==
  /\ mOff = Pending
  /\ mOff' = Return(getOffsetOf([parsed |-> InputPacket(mIn),
                                 clientReceiveTime |-> NewDate(NInt(mIn.t4))]))
  /\ UNCHANGED << mIn, mOut, clientVars, parserVars, requestVars, callVars >>

NextMetrics == CalculateMetrics \/ GetOffset

SpecMetrics == InitMetrics /\ [][NextMetrics]_vars

(***************************************************************************)
(* parsePacket and then calculateMetrics on the packet it returned.  The   *)
(* packet is an object: parsed holds it after each call.                   *)
(***************************************************************************)
\* clientOriginateTime and clientReceiveTime: 250 and 1000 ms apart
PacketTimes ==
  { << NMul(NWord(26892, 18288), 1000), NAdd(NMul(NWord(26892, 18288), 1000), NInt(ms)) >> :
      ms \in { 250, 1000 } }

InitPacketMetrics ==
  /\ buffer \in ReferenceVariants
  /\ parsed = Pending
  /\ MetricsIdle
  /\ ClientIdle
  /\ RequestIdle
  /\ CallIdle

\* calculateMetrics(parsed, new Date(t1), new Date(t4)) on the packet that
\* parsePacket returned: lines 167-180 read parsed.timestamps and assign to no
\* field of parsed
MeasurePacket(t1, t4) ==
  /\ parsed # Pending
  /\ ~ parsed.threw
  /\ mOut = Pending
  /\ mIn' = [kind |-> "parsed", t1 |-> t1, t4 |-> t4]
  /\ mOut' = Return(calculateMetrics(parsed.value, NewDate(t1), NewDate(t4)))
  /\ UNCHANGED << buffer, parsed, mOff, clientVars, requestVars, callVars >>

NextPacketMetrics ==
  \/ ParsePacket
  \/ \E t \in PacketTimes : MeasurePacket(t[1], t[2])

SpecPacketMetrics == InitPacketMetrics /\ [][NextPacketMetrics]_vars

(***************************************************************************)
(* The request on its own: createRequestPacket at one reading of the clock *)
(* with one Math.random(), and the packet it built read by parsePacket.    *)
(***************************************************************************)
\* 1970-01-01T00:00:00Z, 2025-11-06T07:00:00Z and 2036-02-07T06:28:15Z (the
\* last second whose NTP seconds fit 32 bits), each with a few milliseconds
\* and seconds added
RequestClocks ==
  { NAdd(base, NInt(ms)) :
      base \in { NZero, NMul(NWord(26892, 18288), 1000), NMul(NWord(31829, 33151), 1000) },
      ms \in { 0, 1, 999, 1000, 1001, 1999, 2000, 86400000 } }

\* Math.random(): 0, a value (2k + 1) / 2^33, and the largest, (2^33 - 1) / 2^33
RequestRandoms ==
  { NZero }
  \cup Randoms
  \cup { NDiv(NDiv(NDiv(NAdd(NMul(NWord(65535, 65535), 2), NInt(1)), 2^16), 2^16), 2) }

InitRequest ==
  /\ now \in RequestClocks
  /\ random \in RequestRandoms
  /\ request = Pending
  /\ config = [host |-> undefined, port |-> 0, timeout |-> 0,
               fallbackServers |-> << undefined >>]
  /\ client = NTPClient(config)
  /\ ticks = 0
  /\ method = "query"
  /\ pc = "idle"
  /\ servers = << >>
  /\ lastError = NoError
  /\ att = << >>
  /\ outcome = Pending
  /\ returned = Pending
  /\ uncaught = FALSE
  /\ fired = { }
  /\ ParserIdle
  /\ MetricsIdle
  /\ CallIdle

CreateRequestPacket ==
  /\ request = Pending
  /\ request' = createRequestPacket(now, random)
  /\ UNCHANGED << random, clientVars, parserVars, metricVars, callVars >>

\* the packet that was built, read as parsePacket reads a packet
DecodeRequest ==
  /\ request # Pending
  /\ ~ request.threw
  /\ parsed = Pending
  /\ buffer' = request.value
  /\ parsed' = parsePacket(request.value)
  /\ UNCHANGED << requestVars, clientVars, metricVars, callVars >>

NextRequest == CreateRequestPacket \/ DecodeRequest

SpecRequest == InitRequest /\ [][NextRequest]_vars

(***************************************************************************)
(* Two calls of query() on one client.  Node runs one callback at a time,  *)
(* to its end; what a call holds between its callbacks is in the locals of *)
(* query() and of its queryServer calls.  The variables of the client hold *)
(* the call whose callback runs, other holds the call that waits.  The     *)
(* client, the clock and the process are the same for both.  One call is   *)
(* of getTime() and one of getOffset(), each with its query(); the clock   *)
(* advances once while they run.                                           *)
(***************************************************************************)
ThisCall ==
  [ method |-> method, pc |-> pc, servers |-> servers, lastError |-> lastError,
    att |-> att, outcome |-> outcome, returned |-> returned ]

NewCall(m) ==
  [ method |-> m, pc |-> "idle", servers |-> << >>, lastError |-> NoError,
    att |-> << >>, outcome |-> Pending, returned |-> Pending ]

\* a client with a fallback server and one without
ConcurrentConfigs ==
  [ host            : { "ntp-a.example" },
    port            : { 0 },
    timeout         : { 3001 },
    fallbackServers : { << >>, << "ntp-b.example" >> } ]

InitConcurrent ==
  /\ config \in ConcurrentConfigs
  /\ client = NTPClient(config)
  /\ now = NMul(NWord(26892, 18288), 1000)
  /\ ticks = MaxTicks - 1
  /\ method = "getTime"
  /\ pc = "idle"
  /\ servers = << >>
  /\ lastError = NoError
  /\ att = << >>
  /\ outcome = Pending
  /\ returned = Pending
  /\ uncaught = FALSE
  /\ fired = { }
  /\ other = NewCall("getOffset")
  /\ cli = NoCli
  /\ ParserIdle
  /\ MetricsIdle
  /\ RequestIdle

\* the next callback to run belongs to the other call
SwitchCall ==
  /\ ~ uncaught
  /\ other # NoCall
  /\ other' = ThisCall
  /\ method' = other.method
  /\ pc' = other.pc
  /\ servers' = other.servers
  /\ lastError' = other.lastError
  /\ att' = other.att
  /\ outcome' = other.outcome
  /\ returned' = other.returned
  /\ fired' = { i \in 1..Len(other.att) : other.att[i].timer = "fired" }
  /\ UNCHANGED << config, client, now, ticks, uncaught, cli, parserVars, metricVars, requestVars >>

NextConcurrent == Next \/ SwitchCall

SpecConcurrent == InitConcurrent /\ [][NextConcurrent]_vars

(***************************************************************************)
(* One call, with datagrams of any sender on the socket: a reply from      *)
(* another address than the one the request went to, a datagram in client  *)
(* mode, and the reply a server makes of the request, whose originate      *)
(* timestamp is the request's transmit timestamp.                          *)
(***************************************************************************)
SenderAddresses == { "203.0.113.7", "198.51.100.9" }

ClientModeDatagram ==
  Datagram(35, 2, << 216, 239, 35, 12 >>,
           << 60598, 50672, 32768, 0 >>, << 60598, 50672, 32784, 1 >>)

ReplyTo(req) == [k \in 1..48 |-> IF k \in 25..32 THEN req[k + 16] ELSE GoodReply[k]]

DatagramsFor(i) ==
  { GoodReply, ClientModeDatagram, ShortReply }
  \cup (IF i <= Len(att) /\ att[i].request # << >> THEN { ReplyTo(att[i].request) } ELSE { })

InitDatagram ==
  /\ config \in ConcurrentConfigs
  /\ client = NTPClient(config)
  /\ now = NMul(NWord(26892, 18288), 1000)
  /\ ticks = 0
  /\ method \in { "query", "getTime" }
  /\ pc = "idle"
  /\ servers = << >>
  /\ lastError = NoError
  /\ att = << >>
  /\ outcome = Pending
  /\ returned = Pending
  /\ uncaught = FALSE
  /\ fired = { }
  /\ ParserIdle
  /\ MetricsIdle
  /\ RequestIdle
  /\ CallIdle

NextDatagram ==
  \/ \E rnd \in RandomDraws : Call(rnd)
  \/ \E i \in AttemptIds, rnd \in RandomDraws : TimerFires(i, rnd)
  \/ \E i \in AttemptIds, address \in SenderAddresses, rnd \in RandomDraws :
        \E buf \in DatagramsFor(i) : Receive(i, buf, address, rnd)
  \/ \E i \in AttemptIds, error \in TransportErrors, rnd \in RandomDraws :
        SocketError(i, error, rnd)
  \/ \E i \in AttemptIds, error \in SendErrors, rnd \in RandomDraws :
        SendFails(i, error, rnd)
  \/ \E step \in TickSteps : Tick(step)

SpecDatagram == InitDatagram /\ [][NextDatagram]_vars

(***************************************************************************)
(* The command-line driver.  run() parses the arguments and goes to        *)
(* singleQuery or continuousMode; both make a client of the server and     *)
(* call query() (the step Call), and go on when query() has settled.       *)
(***************************************************************************)
MaxQueries == 2

\* the options after parseArgs, with the default server and interval: none,
\* --json, --offset, --verbose, --json --offset, --continuous
CliOptions ==
  { [ server |-> DefaultHost, interval |-> 5000, json |-> f[1], offset |-> f[2],
      verbose |-> f[3], continuous |-> f[4] ] :
      f \in { << FALSE, FALSE, FALSE, FALSE >>, << TRUE, FALSE, FALSE, FALSE >>,
              << FALSE, TRUE, FALSE, FALSE >>, << FALSE, FALSE, TRUE, FALSE >>,
              << TRUE, TRUE, FALSE, FALSE >>, << FALSE, FALSE, FALSE, TRUE >> } }

NoOutput == [kind |-> "none"]

\* new NTPClient({ host: this.options.server })
CliConfig(options) ==
  [host |-> options.server, port |-> 0, timeout |-> 0, fallbackServers |-> << undefined >>]

InitCli ==
  /\ cli \in [ options : CliOptions, phase : { "querying" }, count : { 0 },
                queries : { 1 }, out : { NoOutput }, err : { NoError },
                exitCode : { 0 } ]
  /\ config = CliConfig(cli.options)
  /\ client = NTPClient(config)
  /\ now = NMul(NWord(26892, 18288), 1000)
  /\ ticks = 0
  /\ method = "query"
  /\ pc = "idle"
  /\ servers = << >>
  /\ lastError = NoError
  /\ att = << >>
  /\ outcome = Pending
  /\ returned = Pending
  /\ uncaught = FALSE
  /\ fired = { }
  /\ other = NoCall
  /\ ParserIdle
  /\ MetricsIdle
  /\ RequestIdle

\* singleQuery after its await: the output the options choose, or handleError,
\* which prints the message and exits with code 1
SingleQueryDone ==
  /\ ~ uncaught
  /\ ~ cli.options.continuous
  /\ cli.phase = "querying"
  /\ pc \in { "resolved", "rejected" }
  /\ cli' = IF outcome.threw
            THEN [cli EXCEPT !.err = outcome.error, !.phase = "exited", !.exitCode = 1]
            ELSE [cli EXCEPT !.out = singleOutput(outcome.value, cli.options),
                             !.phase = "done"]
  /\ UNCHANGED << clientVars, parserVars, metricVars, requestVars, other >>

\* continuousMode after its await: count++ and the line of the result, or the
\* error message; then sleep(interval) in both branches
ContinuousQueryDone ==
  /\ ~ uncaught
  /\ cli.options.continuous
  /\ cli.phase = "querying"
  /\ pc \in { "resolved", "rejected" }
  /\ cli' = IF outcome.threw
            THEN [cli EXCEPT !.err = outcome.error, !.phase = "sleeping"]
            ELSE [cli EXCEPT !.count = @ + 1,
                             !.out = continuousLine(cli.count + 1, outcome.value,
                                                    cli.options),
                             !.phase = "sleeping"]
  /\ UNCHANGED << clientVars, parserVars, metricVars, requestVars, other >>

\* the sleep of continuousMode is over: the loop makes a new client and calls
\* query() again.  out and err are what was printed for the query under way.
SleepOver(rnd) ==
  /\ ~ uncaught
  /\ cli.phase = "sleeping"
  /\ cli.queries < MaxQueries
  /\ LET clock == NAdd(now, NInt(cli.options.interval))
         cl    == NTPClient(CliConfig(cli.options))
         list  == << cl.host >> \o cl.fallbackServers
         Go(q) ==
           /\ att' = q.att
           /\ lastError' = q.lastError
           /\ pc' = q.pc
           /\ outcome' = q.outcome
           /\ returned' = ApiReturn(method, q.outcome)
     IN  /\ now' = clock
         /\ config' = CliConfig(cli.options)
         /\ client' = cl
         /\ servers' = list
         /\ Go(QueryLoop(cl, list, 1, << >>, NoError, clock, rnd))
  /\ fired' = { }
  /\ cli' = [cli EXCEPT !.phase = "querying", !.queries = @ + 1,
                        !.out = NoOutput, !.err = NoError]
  /\ UNCHANGED << ticks, method, uncaught, other, parserVars, metricVars, requestVars >>

NextCli ==
  \/ cli.phase # "exited" /\ Next
  \/ SingleQueryDone
  \/ ContinuousQueryDone
  \/ \E rnd \in RandomDraws : SleepOver(rnd)

SpecCli == InitCli /\ [][NextCli]_vars

(***************************************************************************)
(* Properties of query(), checked under Spec.                              *)
(***************************************************************************)
ServerList == << client.host >> \o client.fallbackServers

Settled == pc \in { "resolved", "rejected" }

OpenSockets == { i \in 1..Len(att) : att[i].sock = "open" }

\* C1: query() attempts the hosts in the order primary, fallback 1, fallback 2,
\* ...: attempt i is on the i-th host of the list, an attempt exists only when
\* every attempt before it has failed (so a fallback is contacted only after
\* the primary failed), and no attempt follows one that succeeded.
SequentialFallback ==
  /\ Len(att) <= Len(ServerList)
  /\ \A i \in 1..Len(att) : att[i].host = ServerList[i]
  /\ \A i \in 1..(Len(att) - 1) : att[i].promise = "rejected"
  /\ pc = "resolved" => att[Len(att)].promise = "resolved"

\* the primary failed and the first fallback answered
FallbackAnswered ==
  /\ pc = "resolved"
  /\ Len(att) = 2
  /\ att[1].promise = "rejected"
  /\ att[2].promise = "resolved"

\* C2: when query() succeeds, usedServer is the first host of the list whose
\* attempt succeeded, every host before it having failed; it is a member of
\* the configured list, and the caller sees no error.
UsedServerIsFirstSuccess ==
  pc = "resolved" =>
    /\ ~ outcome.threw
    /\ ~ returned.threw
    /\ \E i \in 1..Len(att) :
         /\ att[i].promise = "resolved"
         /\ \A j \in 1..(i - 1) : att[j].promise = "rejected"
         /\ outcome.value.usedServer = ServerList[i]
    /\ \E k \in 1..Len(ServerList) : outcome.value.usedServer = ServerList[k]

\* the primary timed out and query() returned the fallback's reply
FallbackUsedAfterTimeout ==
  /\ pc = "resolved"
  /\ Len(att) = 2
  /\ att[1].reason.kind = "timeout"
  /\ outcome.value.usedServer = client.fallbackServers[1]
  /\ outcome.value.usedServer # client.host

\* C3: query() fails exactly when the attempt on every host of the list has
\* failed; its error then names the hosts of the list in order and carries the
\* last attempt's error, and no other error reaches the caller.
FailsIffEveryHostFailed ==
  /\ pc = "rejected" <=>
       /\ pc # "idle"
       /\ Len(att) = Len(ServerList)
       /\ \A i \in 1..Len(att) : att[i].promise = "rejected"
  /\ pc = "rejected" =>
       /\ outcome.threw
       /\ outcome.error.kind = "allFailed"
       /\ outcome.error.servers = ServerList
       /\ outcome.error.message = att[Len(att)].reason
       /\ returned = outcome
  /\ outcome.threw => pc = "rejected"
  /\ returned.threw => pc = "rejected"

\* the primary timed out, the fallback's send failed, and query() failed
EveryHostFailed ==
  /\ pc = "rejected"
  /\ Len(att) = 2
  /\ att[1].reason.kind = "timeout"
  /\ att[2].reason \in SendErrors

\* C4: when query() has settled, every socket the call opened is closed.
SocketsClosedWhenSettled ==
  Settled => OpenSockets = { }

\* C4, for the attempts whose request was built: when query() has settled,
\* their sockets are closed.
SentSocketsClosedWhenSettled ==
  Settled => \A i \in OpenSockets : att[i].request = << >>

\* C5: at most one socket of the call is open, and the socket of an attempt is
\* closed when the next attempt has been started.
AtMostOneSocketOpen ==
  /\ Cardinality(OpenSockets) <= 1
  /\ \A i \in OpenSockets : i = Len(att)

\* C5, for the attempts whose request was built: at most one of their sockets
\* is open, and it is the socket of the last attempt.
AtMostOneSentSocketOpen ==
  \A i \in OpenSockets : att[i].request # << >> => i = Len(att)

(***************************************************************************)
(* Properties of parsePacket, checked under SpecParser.                    *)
(***************************************************************************)
\* C6: parsePacket rejects a buffer of fewer than 48 bytes (0 to 47) with the
\* invalid-packet error and with no other failure.
ShortBufferRejected ==
  (parsed # Pending /\ Len(buffer) < 48) => parsed = Throw(InvalidPacket)

\* a buffer of 47 bytes was rejected
Buffer47Rejected == Len(buffer) = 47 /\ parsed # Pending /\ parsed.threw

(***************************************************************************)
(* Properties of calculateMetrics and getOffset, checked under             *)
(* SpecMetrics.  T1..T4 are the four times in seconds, taken from the      *)
(* inputs: the client's times from their milliseconds, the server's from   *)
(* the words of the datagram (Unix seconds plus the 32-bit fraction) or    *)
(* from the seconds and milliseconds the caller wrote.                     *)
(***************************************************************************)
ServerSeconds(kind, w) ==
  IF kind = "wire"
  THEN NAdd(NSub(NWord(w[1], w[2]), NWord(33706, 32384)),
            NDiv(NDiv(NWord(w[3], w[4]), 2^16), 2^16))
  ELSE NAdd(NInt(w[1]), NDiv(NInt(w[2]), 1000))

T1 == NDiv(NInt(mIn.t1), 1000)

T2 == ServerSeconds(mIn.kind, mIn.recv)

T3 == ServerSeconds(mIn.kind, mIn.xmit)

T4 == NDiv(NInt(mIn.t4), 1000)

Milli(n) == NDiv(NInt(n), 1000)

\* C7: roundTripDelay = (T4 - T1) - (T3 - T2) and clockOffset =
\* ((T2 - T1) + (T3 - T4)) / 2, in seconds, and roundTripDelayMs and
\* clockOffsetMs are 1000 times these.
MetricsFollowFormulas ==
  mOut # Pending =>
    /\ NAdd(mOut.value.roundTripDelay, NSub(T3, T2)) = NSub(T4, T1)
    /\ NMul(mOut.value.clockOffset, 2) = NAdd(NSub(T2, T1), NSub(T3, T4))
    /\ mOut.value.roundTripDelayMs = NMul(mOut.value.roundTripDelay, 1000)
    /\ mOut.value.clockOffsetMs = NMul(mOut.value.clockOffset, 1000)

\* metrics were computed from a datagram whose server spent time on the request
MetricsOfBusyServer ==
  /\ mOut # Pending
  /\ mIn.kind = "wire"
  /\ NLess(T2, T3)
  /\ NSign(mOut.value.clockOffset) # 0

ExampleTimes ==
  /\ mIn # NoInput
  /\ mIn.kind = "literal"
  /\ T1 = NInt(1000)
  /\ T2 = NAdd(NInt(1000), Milli(100))
  /\ T3 = NAdd(NInt(1000), Milli(100))
  /\ T4 = NAdd(NInt(1000), Milli(250))

\* C8: for T1 = 1000.000 s, T2 = T3 = 1000.100 s, T4 = 1000.250 s,
\* calculateMetrics yields delay = 0.250 s and offset = -0.025 s.
ExampleMetrics ==
  (ExampleTimes /\ mOut # Pending) =>
    /\ mOut.value.roundTripDelay = Milli(250)
    /\ mOut.value.clockOffset = NNeg(Milli(25))

\* C8 as stated: for the same times, delay = 0.150 s and offset = 0.075 s.
ExampleMetricsAsStated ==
  (ExampleTimes /\ mOut # Pending) =>
    /\ mOut.value.roundTripDelay = Milli(150)
    /\ mOut.value.clockOffset = Milli(75)

\* the metrics of the example were computed
ExampleComputed == ExampleTimes /\ mOut # Pending /\ ~ mOut.threw

\* C9: whenever T2 = T3, calculateMetrics yields delay = T4 - T1 and
\* offset = T2 - (T1 + T4) / 2.
InstantServerMetrics ==
  (mOut # Pending /\ T2 = T3) =>
    /\ mOut.value.roundTripDelay = NSub(T4, T1)
    /\ mOut.value.clockOffset = NSub(T2, NDiv(NAdd(T1, T4), 2))

\* metrics were computed from a datagram with T2 = T3 that lies off the
\* middle of T1 and T4
InstantServerComputed ==
  /\ mOut # Pending
  /\ mIn.kind = "wire"
  /\ T2 = T3
  /\ T2 # NDiv(NAdd(T1, T4), 2)

\* The clock differences d, in milliseconds, that the inputs realise.
ClockDifferences == { Milli(d) : d \in { -125, -25, 0, 375 } }

\* The server clock is the local clock plus d and the network delay is the same
\* in both directions: the request took (T2 - d) - T1 and the reply
\* T4 - (T3 - d), both measured on the local clock.
SymmetricDelay(d) == NSub(NSub(T2, d), T1) = NSub(T4, NSub(T3, d))

OffsetIsClockDifference ==
  mOut # Pending =>
    \A d \in ClockDifferences : SymmetricDelay(d) => mOut.value.clockOffset = d

\* the transmit timestamp as getOffset reads it: a Date, of whole milliseconds
TransmitDateMs == NTrunc(NMul(T3, 1000))

ApiDelegatesToQuery ==
  /\ Len(att) <= Len(ServerList)
  /\ (returned = Pending) <=> (outcome = Pending)
  /\ (returned # Pending /\ outcome.threw) => returned = outcome
  /\ (returned # Pending /\ ~ outcome.threw /\ method = "getTime") =>
       returned = Return(outcome.value.parsed.timestamps.transmit.date)
  /\ (returned # Pending /\ ~ outcome.threw /\ method = "getOffset") =>
       returned = Return(NSub(outcome.value.parsed.timestamps.transmit.timestamp,
                              outcome.value.clientReceiveTime))

\* getOffset() returned an offset other than zero
OffsetReturned ==
  /\ method = "getOffset"
  /\ pc = "resolved"
  /\ ~ returned.threw
  /\ NSign(returned.value) # 0

\* C12: in a query result, clientOriginateTime is not earlier than the start
\* of the attempt that was answered and not later than clientReceiveTime.
OriginateWithinAttempt ==
  pc = "resolved" =>
    /\ NLeq(att[Len(att)].startedAt, outcome.value.clientOriginateTime)
    /\ NLeq(outcome.value.clientOriginateTime, outcome.value.clientReceiveTime)

\* C12, as the code has it: clientOriginateTime is the time of reception less
\* half the timeout, cut to whole milliseconds, and so not later than
\* clientReceiveTime.
OriginateIsReceiveLessHalfTimeout ==
  pc = "resolved" =>
    /\ NMul(outcome.value.clientOriginateTime, 2)
         \in { NSub(NMul(outcome.value.clientReceiveTime, 2), NInt(client.timeout)),
               NSub(NMul(outcome.value.clientReceiveTime, 2), NInt(client.timeout + 1)) }
    /\ NLeq(outcome.value.clientOriginateTime, outcome.value.clientReceiveTime)

\* C13: a stratum-0 reply of 48 bytes that arrives on the socket of an attempt
\* makes query() return it as its result, stratum 0 in its header; no error is
\* raised and no further host is attempted.
KissReplyReturned ==
  [][\A i \in AttemptIds, address \in Addresses, rnd \in RandomDraws :
       Receive(i, KissReply, address, rnd) =>
         /\ pc' = "resolved"
         /\ ~ outcome'.threw
         /\ ~ returned'.threw
         /\ ~ uncaught'
         /\ outcome'.value.buffer = KissReply
         /\ outcome'.value.parsed.header.stratum = 0
         /\ outcome'.value.usedServer = att[i].host
         /\ Len(att') = Len(att)]_vars

\* query() has returned a stratum-0 reply
KissReplyResult ==
  /\ pc = "resolved"
  /\ outcome.value.buffer = KissReply
  /\ outcome.value.parsed.header.stratum = 0
  /\ outcome.value.parsed.header.referenceId = KISS

\* C14: a reply shorter than 48 bytes on the socket of attempt i makes the
\* attempt fail in that step, with the parser's error: its timer is cleared and
\* its socket closed, the attempts before it stay as they are, and query()
\* goes to host i + 1, or fails if host i was the last.
ShortReplyFailsAttempt ==
  [][\A i \in AttemptIds, address \in Addresses, rnd \in RandomDraws :
       Receive(i, ShortReply, address, rnd) =>
         /\ att'[i].promise = "rejected"
         /\ att'[i].reason = Message(InvalidPacket)
         /\ att'[i].sock = "closed"
         /\ att'[i].timer = "cleared"
         /\ \A j \in 1..(i - 1) : att'[j] = att[j]
         /\ \A j \in (i + 1)..Len(att') : att'[j].host = ServerList[j]
         /\ IF i < Len(ServerList)
            THEN Len(att') > i /\ att'[i + 1].startedAt = now
            ELSE Len(att') = i /\ pc' = "rejected"
         /\ pc' # "resolved"]_vars

\* a short reply failed the primary and the fallback was started
FallbackAfterShortReply ==
  /\ Len(att) = 2
  /\ att[1].reason = Message(InvalidPacket)
  /\ att[1].timer = "cleared"
  /\ att[2].promise = "pending"

(***************************************************************************)
(* Properties of the header that parsePacket returns, under SpecParser.    *)
(***************************************************************************)
Parsed == parsed # Pending /\ ~ parsed.threw

\* C15: with b the first byte, leapIndicator is in 0..3, versionNumber and
\* mode are in 0..7, and 64 * leapIndicator + 8 * versionNumber + mode = b;
\* stratum is byte 1.
HeaderBitsDecoded ==
  Parsed =>
    LET h == parsed.value.header
    IN  /\ h.leapIndicator \in 0..3
        /\ h.versionNumber \in 0..7
        /\ h.mode \in 0..7
        /\ 64 * h.leapIndicator + 8 * h.versionNumber + h.mode = buffer[1]
        /\ h.stratum = buffer[2]
        /\ h.stratum \in 0..255

\* a packet with all bits of its first byte set was parsed
AllBitsSetParsed ==
  /\ Parsed
  /\ buffer[1] = 255
  /\ parsed.value.header.leapIndicator = 3
  /\ parsed.value.header.versionNumber = 7
  /\ parsed.value.header.mode = 7

(***************************************************************************)
(* Properties of the request, under SpecRequest.                           *)
(***************************************************************************)
RequestDecoded == request # Pending /\ ~ request.threw /\ Parsed

RequestBuilt == request # Pending /\ ~ request.threw

\* the unsigned 32-bit number that four bytes of the request hold, big-endian
RequestWord(k) ==
  NWord(request.value[k + 1] * 256 + request.value[k + 2],
        request.value[k + 3] * 256 + request.value[k + 4])

\* C17: a request is 48 bytes long, bytes 1 to 39 are zero, bytes 40 to 43
\* hold the current Unix seconds plus 2208988800, and bytes 44 to 47 the
\* nonce, the integer part of Math.random() * 2^32.
RequestLayout ==
  RequestBuilt =>
    LET unixSeconds == NSub(RequestWord(40), NWord(33706, 32384))
        nonce       == RequestWord(44)
        scaled      == NMul(NMul(random, 2^16), 2^16)
    IN  /\ Len(request.value) = 48
        /\ \A k \in 1..48 : request.value[k] \in 0..255
        /\ \A k \in 2..40 : request.value[k] = 0
        /\ NLeq(NMul(unixSeconds, 1000), now)
        /\ NLess(now, NMul(NAdd(unixSeconds, NInt(1)), 1000))
        /\ NLeq(nonce, scaled)
        /\ NLess(scaled, NAdd(nonce, NInt(1)))

\* a request built in the last second whose NTP seconds fit 32 bits, with the
\* largest nonce
LastSecondRequest ==
  /\ RequestBuilt
  /\ \A k \in 41..48 : request.value[k] = 255

(***************************************************************************)
(* More properties of the header that parsePacket returns, under           *)
(* SpecParser.                                                             *)
(***************************************************************************)
\* a byte read as a signed byte
SignedByte(b) == IF b >= 128 THEN b - 256 ELSE b

\* the unsigned 32-bit number that four bytes of the buffer hold, big-endian
BufferWord(k) ==
  NWord(buffer[k + 1] * 256 + buffer[k + 2], buffer[k + 3] * 256 + buffer[k + 4])

\* C18: pollInterval and precision are bytes 2 and 3 read as signed bytes, in
\* -128..127.
PollAndPrecisionSigned ==
  Parsed =>
    /\ parsed.value.header.pollInterval = SignedByte(buffer[3])
    /\ parsed.value.header.precision = SignedByte(buffer[4])

\* C18, as the code has it: pollInterval and precision are bytes 2 and 3 as
\* they are, in 0..255.
PollAndPrecisionUnsigned ==
  Parsed =>
    /\ parsed.value.header.pollInterval = buffer[3]
    /\ parsed.value.header.precision = buffer[4]
    /\ parsed.value.header.pollInterval \in 0..255
    /\ parsed.value.header.precision \in 0..255

\* C19: rootDelay and rootDispersion are the unsigned 32-bit values of bytes
\* 4-7 and 8-11 divided by 65536, in seconds.
RootFieldsFixedPoint ==
  Parsed =>
    /\ NMul(parsed.value.header.rootDelay, 2^16) = BufferWord(4)
    /\ NMul(parsed.value.header.rootDispersion, 2^16) = BufferWord(8)

\* C19, as the code has it: rootDelay and rootDispersion are the unsigned
\* 32-bit values of bytes 4-7 and 8-11 as they are.
RootFieldsRaw ==
  Parsed =>
    /\ parsed.value.header.rootDelay = BufferWord(4)
    /\ parsed.value.header.rootDispersion = BufferWord(8)

\* C20: for stratum 0 the reference identifier is the string "KISS", whatever
\* bytes 12-15 hold.
KissReferenceId ==
  (Parsed /\ buffer[2] = 0) => parsed.value.header.referenceId = << 75, 73, 83, 83 >>

\* a stratum-0 packet whose bytes 12-15 spell another word was parsed
KissCodeParsed ==
  /\ Parsed
  /\ buffer[2] = 0
  /\ SubSeq(buffer, 13, 16) = << 68, 69, 78, 89 >>

(***************************************************************************)
(* Properties of the reference identifier, under SpecParser.  A string is  *)
(* the sequence of its character codes.                                    *)
(***************************************************************************)
ReferenceBytes == SubSeq(buffer, 13, 16)

\* C21: a stratum-0 packet whose bytes 12-15 spell "DENY" has the reference
\* identifier "DENY".
DenyCodeShown ==
  (Parsed /\ buffer[2] = 0 /\ ReferenceBytes = << 68, 69, 78, 89 >>) =>
    parsed.value.header.referenceId = << 68, 69, 78, 89 >>

\* C21, as the code has it: the reference identifier of that packet is "KISS".
DenyCodeHidden ==
  (Parsed /\ buffer[2] = 0 /\ ReferenceBytes = << 68, 69, 78, 89 >>) =>
    parsed.value.header.referenceId = KISS

\* the positions of bytes 12-15 that hold a character other than NUL, the top
\* bit of a byte not being part of an ASCII character
KeptPositions == { k \in 1..4 : ReferenceBytes[k] % 128 # 0 }

\* C22: for stratum 1 the reference identifier is bytes 12-15 read as ASCII
\* characters, the NUL characters left out: at most 4 characters, none of them
\* NUL; 47 50 53 00 gives "GPS".
AsciiReferenceId ==
  (Parsed /\ buffer[2] = 1) =>
    LET id == parsed.value.header.referenceId
    IN  /\ Len(id) = Cardinality(KeptPositions)
        /\ Len(id) <= 4
        /\ \A j \in 1..Len(id) : id[j] \in 1..127
        /\ \A k \in KeptPositions :
             id[Cardinality({ m \in KeptPositions : m <= k })] = ReferenceBytes[k] % 128
        /\ ReferenceBytes = << 71, 80, 83, 0 >> => id = << 71, 80, 83 >>

\* the stratum-1 packet with the reference identifier "GPS" was parsed
GpsParsed ==
  /\ Parsed
  /\ buffer[2] = 1
  /\ ReferenceBytes = << 71, 80, 83, 0 >>
  /\ parsed.value.header.referenceId = << 71, 80, 83 >>

HexValue(c) == IF c <= 57 THEN c - 48 ELSE c - 55

\* C23: for a stratum of 2 or more the reference identifier is "0x" and 8
\* digits 0-9, A-F, two digits for each of bytes 12-15 in order.
HexReferenceId ==
  (Parsed /\ buffer[2] >= 2) =>
    LET id == parsed.value.header.referenceId
    IN  /\ Len(id) = 10
        /\ id[1] = 48
        /\ id[2] = 120
        /\ \A k \in 3..10 : id[k] \in (48..57) \cup (65..70)
        /\ \A m \in 1..4 :
             16 * HexValue(id[2 * m + 1]) + HexValue(id[2 * m + 2]) = ReferenceBytes[m]
        /\ ReferenceBytes = << 216, 239, 35, 12 >> =>
             id = << 48, 120, 68, 56, 69, 70, 50, 51, 48, 67 >>

\* the reference identifier 0x000000FF was formatted
SmallNumberPadded ==
  /\ Parsed
  /\ buffer[2] >= 2
  /\ ReferenceBytes = << 0, 0, 0, 255 >>
  /\ parsed.value.header.referenceId = << 48, 120, 48, 48, 48, 48, 48, 48, 70, 70 >>

(***************************************************************************)
(* Properties of the four timestamps that parsePacket returns, under       *)
(* SpecParser.                                                             *)
(***************************************************************************)
TimestampNames == { "reference", "originate", "receive", "transmit" }

\* the offset of a timestamp in the packet
TimestampOffset(name) ==
  CASE name = "reference" -> 16
    [] name = "originate" -> 24
    [] name = "receive"   -> 32
    [] name = "transmit"  -> 40

ParsedTimestamp(name) == parsed.value.timestamps[name]

\* 2208988800
EpochOffset == NMul(NInt(22089888), 100)

\* C24: the Unix seconds of each of the four timestamps are the seconds on the
\* wire less 2208988800, a whole number, negative when the seconds on the wire
\* are below 2208988800.
UnixSecondsExact ==
  Parsed =>
    \A name \in TimestampNames :
      LET seconds     == BufferWord(TimestampOffset(name))
          unixSeconds == ParsedTimestamp(name).unix.seconds
      IN  /\ NAdd(unixSeconds, EpochOffset) = seconds
          /\ NIsInt(unixSeconds)
          /\ NLess(seconds, EpochOffset) <=> NSign(unixSeconds) < 0

\* seconds of 0 on the wire were parsed as -2208988800, and seconds of
\* 2208988799 as -1
SecondsBeforeEpochParsed ==
  /\ Parsed
  /\ BufferWord(16) = NZero
  /\ ParsedTimestamp("reference").unix.seconds = NNeg(EpochOffset)
  /\ BufferWord(24) = NWord(33706, 32383)
  /\ ParsedTimestamp("originate").unix.seconds = NInt(-1)

\* the bytes of an unsigned 32-bit number, most significant first
BigEndian(n) ==
  << n[6] % 256, (n[5] \div 16) % 256,
     ((n[5] % 16) * 16 + n[4] \div 256) % 256, n[4] % 256 >>

\* C25: the raw seconds and fraction of each of the four timestamps, written
\* as two big-endian unsigned 32-bit numbers, are the 8 bytes of the packet
\* that the timestamp was read from.
RawRoundTrip ==
  Parsed =>
    \A name \in TimestampNames :
      LET raw == ParsedTimestamp(name).raw
      IN  /\ NIsInt(raw.seconds) /\ NLeq(NZero, raw.seconds)
          /\ NLeq(raw.seconds, NWord(65535, 65535))
          /\ NIsInt(raw.fraction) /\ NLeq(NZero, raw.fraction)
          /\ NLeq(raw.fraction, NWord(65535, 65535))
          /\ BigEndian(NDiv(raw.seconds, 1000)) \o BigEndian(NDiv(raw.fraction, 1000))
               = SubSeq(buffer, TimestampOffset(name) + 1, TimestampOffset(name) + 8)

\* a packet with four timestamps that are not palindromes of bytes was parsed
AsymmetricStampsParsed ==
  /\ Parsed
  /\ SubSeq(buffer, 17, 24) = << 236, 182, 197, 240, 64, 16, 0, 0 >>
  /\ SubSeq(buffer, 25, 32) = << 0, 0, 0, 1, 128, 0, 0, 0 >>
  /\ ParsedTimestamp("transmit").raw.seconds = NWord(60598, 50672)
  /\ ParsedTimestamp("receive").raw.fraction = NWord(32768, 0)

\* the milliseconds that a fraction on the wire stands for: fraction * 1000 / 2^32
FractionMs(name) ==
  NDiv(NDiv(NMul(BufferWord(TimestampOffset(name) + 4), 1000), 2^16), 2^16)

\* what C26 says of all fractions: the milliseconds are fraction * 1000 / 2^32,
\* at least 0 and less than 1000, and no smaller for a larger fraction;
\* fraction 0 gives 0 and 0x80000000 gives 500
MillisecondsOfFraction ==
  \A name \in TimestampNames :
    LET ms == ParsedTimestamp(name).unix.milliseconds
    IN  /\ NMul(NMul(ms, 2^16), 2^16) = NMul(BufferWord(TimestampOffset(name) + 4), 1000)
        /\ NLeq(NZero, ms) /\ NLess(ms, NInt(1000))
        /\ BufferWord(TimestampOffset(name) + 4) = NZero => ms = NZero
        /\ BufferWord(TimestampOffset(name) + 4) = NWord(32768, 0) => ms = NInt(500)
        /\ \A larger \in TimestampNames :
             NLeq(BufferWord(TimestampOffset(name) + 4), BufferWord(TimestampOffset(larger) + 4))
               => NLeq(ms, ParsedTimestamp(larger).unix.milliseconds)

\* C26: the milliseconds are fraction * 1000 / 2^32, in [0, 1000) and
\* non-decreasing in the fraction; 0 gives 0, 0x80000000 gives 500, and
\* 0xFFFFFFFF gives 999.9998 to within 0.0001.
MillisecondsAsStated ==
  Parsed =>
    /\ MillisecondsOfFraction
    /\ \A name \in TimestampNames :
         BufferWord(TimestampOffset(name) + 4) = NWord(65535, 65535) =>
           LET ms == ParsedTimestamp(name).unix.milliseconds
           IN  /\ NLeq(NSub(NInt(1000), NDiv(NInt(3), 10000)), ms)
               /\ NLeq(ms, NSub(NInt(1000), NDiv(NInt(1), 10000)))

\* C26, with the value that 0xFFFFFFFF has: 1000 - 1000 / 2^32, which is
\* 999.99999977 to 8 decimals.
MillisecondsExact ==
  Parsed =>
    /\ MillisecondsOfFraction
    /\ \A name \in TimestampNames :
         BufferWord(TimestampOffset(name) + 4) = NWord(65535, 65535) =>
           LET ms == ParsedTimestamp(name).unix.milliseconds
           IN  /\ NMul(NMul(NSub(NInt(1000), ms), 2^16), 2^16) = NInt(1000)
               /\ NLess(NSub(NInt(1000), NDiv(NInt(1), 1000000)), ms)

\* fractions of 0xFFFFFFFF and 0x80000000 were parsed into their milliseconds
LargestFractionParsed ==
  /\ Parsed
  /\ BufferWord(20) = NWord(65535, 65535)
  /\ BufferWord(28) = NWord(32768, 0)
  /\ ParsedTimestamp("originate").unix.milliseconds = NInt(500)
  /\ NLess(ParsedTimestamp("originate").unix.milliseconds,
           ParsedTimestamp("reference").unix.milliseconds)

\* unix.seconds * 1000 + unix.milliseconds of a timestamp on the wire, exactly
ExactMs(name) ==
  NAdd(NMul(NSub(BufferWord(TimestampOffset(name)), EpochOffset), 1000), FractionMs(name))

\* C27: the timestamp of each parsed timestamp, and its date, are
\* unix.seconds * 1000 + unix.milliseconds, the milliseconds not rounded.
TimestampIsSum ==
  Parsed =>
    \A name \in TimestampNames :
      /\ ParsedTimestamp(name).timestamp = ExactMs(name)
      /\ ParsedTimestamp(name).date = ExactMs(name)

\* half of the distance between two doubles next to 2^41
HalfUlp == NDiv(NInt(1), 4096)

\* C27, as Date has it: the timestamp is a whole number of milliseconds, the
\* integer part (towards zero) of the sum unix.seconds * 1000 +
\* unix.milliseconds computed in double precision, which is less than 2^-12
\* away from the exact sum; the date holds the same value.
TimestampIsWholeSum ==
  Parsed =>
    \A name \in TimestampNames :
      LET t == ParsedTimestamp(name).timestamp
      IN  /\ ParsedTimestamp(name).date = t
          /\ NIsInt(t)
          /\ NSign(ExactMs(name)) >= 0 =>
               /\ NLeq(NSub(t, HalfUlp), ExactMs(name))
               /\ NLess(ExactMs(name), NAdd(t, NInt(1)))
          /\ NSign(ExactMs(name)) < 0 =>
               /\ NLess(NSub(t, NInt(1)), ExactMs(name))
               /\ NLeq(ExactMs(name), NAdd(t, HalfUlp))
          /\ (NSign(ExactMs(name)) >= 0 /\ NLess(ExactMs(name), NInt(1000000))) =>
               NLeq(t, ExactMs(name))

\* timestamps of 0.250244 s and 0.9999999998 s after the Unix epoch were parsed
\* into 250 and 999 milliseconds
FractionsTruncated ==
  /\ Parsed
  /\ SubSeq(buffer, 17, 24) = << 131, 170, 126, 128, 64, 16, 0, 0 >>
  /\ ParsedTimestamp("reference").timestamp = NInt(250)
  /\ SubSeq(buffer, 25, 32) = << 131, 170, 126, 128, 255, 255, 255, 255 >>
  /\ ParsedTimestamp("originate").timestamp = NInt(999)

(***************************************************************************)
(* The attempts of one call of query(), under Spec.                        *)
(***************************************************************************)
\* the request that attempt i builds
OwnRequest(i) == createRequestPacket(att[i].startedAt, RandomOf(i))

\* attempt i built its own request, after it opened its socket, and gave it
\* to send once, for its own host
SentOwnRequest(i) ==
  /\ ~ OwnRequest(i).threw
  /\ att[i].request = OwnRequest(i).value
  /\ att[i].host = servers[i]
  /\ att[i].send # "none" \/ SendThrows(client.port)
  /\ \A j \in 1..Len(att) : j # i => att[j].request # att[i].request

\* attempt i built no request and sent nothing: createRequestPacket threw
SentNothing(i) ==
  /\ OwnRequest(i).threw
  /\ att[i].request = << >>
  /\ att[i].host = servers[i]
  /\ att[i].send = "none"

\* a step leaves the host, the request and the starting time of every attempt
\* as they are, never sends again, and changes the socket, the timer and the
\* promise of one attempt at most
AttemptsApart ==
  /\ Len(att') >= Len(att)
  /\ \A i \in 1..Len(att) :
       /\ att'[i].host = att[i].host
       /\ att'[i].request = att[i].request
       /\ att'[i].startedAt = att[i].startedAt
       /\ att[i].send # "pending" => att'[i].send = att[i].send
  /\ \A i, j \in 1..Len(att) : (att'[i] # att[i] /\ att'[j] # att[j]) => i = j

\* C28: every attempt of a call has built one request of its own after opening
\* its socket and has sent it once to its host; no two attempts have the same
\* packet.
EveryAttemptSendsOwnRequest == \A i \in 1..Len(att) : SentOwnRequest(i)

\* C28, as the code has it: that holds of the attempts whose request was
\* built; an attempt whose createRequestPacket threw has no request and sends
\* nothing.  No step shares a socket, a timer or a packet between attempts.
BuiltAttemptSendsOwnRequest ==
  [](\A i \in 1..Len(att) : SentOwnRequest(i) \/ SentNothing(i)) /\ [][AttemptsApart]_vars

(***************************************************************************)
(* Two calls on one client, under SpecConcurrent.                          *)
(***************************************************************************)
ConcurrentStart == NMul(NWord(26892, 18288), 1000)

HostOnly == config.host # undefined /\ config.fallbackServers = << undefined >>

\* C30: a client constructed with a host and no list of fallback servers
\* queries that host only: every attempt is to that host, a result comes from
\* that host, and the call fails once the attempt to that host has failed.
HostOnlyClientQueriesHost ==
  HostOnly =>
    /\ \A i \in 1..Len(att) : att[i].host = config.host
    /\ pc = "resolved" => outcome.value.usedServer = config.host
    /\ (Len(att) >= 1 /\ att[1].promise = "rejected") => pc = "rejected"

\* C30, as the code has it: the client queries the host and then
\* time.google.com and pool.ntp.org, a result comes from the server of the
\* last attempt, and the call fails once all three attempts have failed.
HostOnlyClientFallsBack ==
  HostOnly =>
    /\ client.fallbackServers = << "time.google.com", "pool.ntp.org" >>
    /\ \A i \in 1..Len(att) :
         att[i].host = (<< config.host, "time.google.com", "pool.ntp.org" >>)[i]
    /\ pc = "resolved" => outcome.value.usedServer = att[Len(att)].host
    /\ pc = "rejected" => (Len(att) = 3 /\ \A i \in 1..3 : att[i].promise = "rejected")

(***************************************************************************)
(* The callbacks of one attempt, under Spec.                               *)
(***************************************************************************)
\* attempt i was settled by a reply or by an error, not by its timer
DecidedByReplyOrError(i) ==
  \/ att[i].promise = "resolved"
  \/ att[i].promise = "rejected" /\ att[i].reason.kind # "timeout"

\* a step leaves a settled attempt settled as it was
SettlesOnce ==
  \A i \in 1..Len(att) :
    att[i].promise # "pending" =>
      /\ Len(att') >= i
      /\ att'[i].promise = att[i].promise
      /\ att'[i].reason = att[i].reason

\* the first callback of a pending attempt settles it: the timer with the
\* timeout error, a datagram with the result or the parser's error, a socket
\* error and a failed send with their error
FirstEventDecides ==
  \A i \in AttemptIds, rnd \in RandomDraws :
    (i <= Len(att) /\ att[i].promise = "pending") =>
      /\ TimerFires(i, rnd) =>
           /\ att'[i].promise = "rejected"
           /\ att'[i].reason = TimeoutError(client.timeout, att[i].host)
           /\ att'[i].timer = "fired"
      /\ \A buf \in Replies, address \in Addresses :
           Receive(i, buf, address, rnd) =>
             /\ att'[i].timer = "cleared"
             /\ IF Len(buf) < 48
                THEN att'[i].promise = "rejected" /\ att'[i].reason = Message(InvalidPacket)
                ELSE att'[i].promise = "resolved" /\ att'[i].reason = NoError
      /\ \A error \in TransportErrors :
           SocketError(i, error, rnd) =>
             /\ att'[i].promise = "rejected"
             /\ att'[i].reason = error
             /\ att'[i].timer = "cleared"
      /\ \A error \in SendErrors :
           SendFails(i, error, rnd) =>
             /\ att'[i].promise = "rejected"
             /\ att'[i].reason = error
             /\ att'[i].timer = "cleared"

\* C31: the first of a datagram, the timer, a socket error and a failed send
\* settles the attempt, an attempt settles once, and the timer of an attempt
\* that a reply or an error has settled is cancelled.
FirstEventSettlesAttempt ==
  \A i \in 1..Len(att) : DecidedByReplyOrError(i) => att[i].timer = "cleared"

\* C31, as the code has it: that holds of the attempts whose request was
\* built; an attempt whose createRequestPacket threw is rejected with its
\* timer left armed.  Every step leaves a settled attempt's outcome as it is,
\* and the first callback of a pending attempt settles it.
BuiltAttemptSettledByFirstEvent ==
  /\ [](\A i \in 1..Len(att) :
          (DecidedByReplyOrError(i) /\ att[i].request # << >>) => att[i].timer = "cleared")
  /\ [][SettlesOnce /\ FirstEventDecides]_vars

\* C32: close() is never called a second time on the socket of an attempt.
SocketClosedOnce == \A i \in 1..Len(att) : att[i].closes <= 1

\* C32, as the code has it: close() is called a second time exactly when the
\* send's callback reports a failure on a socket that the timer, a reply or a
\* socket error has closed; that call throws out of the callback.
SecondCloseBySendCallback ==
  \A i \in 1..Len(att) :
    /\ att[i].closes <= 2
    /\ att[i].sock = "closed" <=> att[i].closes >= 1
    /\ att[i].closes = 2 => (att[i].send = "failed" /\ uncaught)
    /\ (att[i].promise # "pending" /\ att[i].request # << >>) => att[i].closes >= 1

(***************************************************************************)
(* Termination of query().  Node's event loop runs the callback of an      *)
(* armed timer once its delay has passed, and runs query() once it is      *)
(* called, for as long as the process lives; nothing obliges the network   *)
(* to deliver a datagram or an error.                                      *)
(***************************************************************************)
TimerDue(i) == ~ uncaught /\ i <= Len(att) /\ att[i].timer = "armed"

\* The step in which the timer callback of attempt i runs: TimerFires alone
\* adds to fired, and it is enabled exactly when the timer is armed and the
\* process lives.
TimerCallbackRuns(i) == TimerDue(i) /\ fired' = fired \cup { i }

TimersFire == \A i \in AttemptIds : WF_fired(TimerCallbackRuns(i))

SpecTermination == Init /\ [][Next]_vars /\ TimersFire

\* there are no more attempts than servers, a pending attempt has its timer
\* armed (the timer is armed when the attempt is created, before the request
\* is built and sent), and an attempt whose timer has fired is over
AttemptsEndWithTimer ==
  /\ Len(att) <= 1 + Len(client.fallbackServers)
  /\ \A i \in 1..Len(att) :
       /\ att[i].promise = "pending" => att[i].timer = "armed"
       /\ att[i].timer = "fired" => att[i].promise = "rejected"

\* C33: every query() call eventually settles.
QueryEventuallySettles == (pc # "idle") ~> Settled

\* C33, as the code has it: a call settles unless a callback throws and ends
\* the process first; there are at most 1 + the number of fallback hosts
\* attempts, and each ends no later than the firing of its own timer.
QuerySettlesUnlessCallbackThrows ==
  /\ []AttemptsEndWithTimer
  /\ (pc # "idle") ~> (Settled \/ uncaught)

\* the timer of the primary fired, the call went on to the next server, and
\* the failure of the primary's send then threw out of its callback
ProcessEndedWithCallRunning ==
  /\ pc = "running"
  /\ uncaught
  /\ fired = { 1 }
  /\ att[1].send = "failed"
  /\ att[Len(att)].promise = "pending"

(***************************************************************************)
(* The two metric fields of a packet, under SpecPacketMetrics.             *)
(***************************************************************************)
\* C34: the packet parsePacket returns has roundTripDelay = null and
\* clockOffset = null; calculateMetrics returns its four values and leaves
\* the packet as parsePacket returned it, the two fields still null.
MetricFieldsStayNull ==
  /\ Parsed =>
       /\ parsed.value.roundTripDelay = null
       /\ parsed.value.clockOffset = null
  /\ mOut # Pending =>
       /\ DOMAIN mOut.value =
            { "roundTripDelay", "clockOffset", "roundTripDelayMs", "clockOffsetMs" }
       /\ parsed = parsePacket(buffer)
       /\ parsed.value.roundTripDelay = null
       /\ parsed.value.clockOffset = null

\* metrics other than zero were computed from a parsed packet
MetricsOfParsedPacket ==
  /\ Parsed
  /\ mOut # Pending
  /\ NSign(mOut.value.clockOffset) # 0
  /\ NSign(mOut.value.roundTripDelay) # 0

(***************************************************************************)
(* Buffers of 48 bytes and more, under SpecParser.                         *)
(***************************************************************************)
\* C35: parsePacket succeeds on every buffer of 48 bytes or more, and returns
\* what it returns for the first 48 bytes of the buffer alone.
TrailingBytesIgnored ==
  (parsed # Pending /\ Len(buffer) >= 48) =>
    /\ ~ parsed.threw
    /\ parsed = parsePacket(SubSeq(buffer, 1, 48))

\* a reply followed by two bytes of 255 was parsed
ReplyWithTrailerParsed ==
  /\ Parsed
  /\ Len(buffer) = 50
  /\ buffer[49] = 255
  /\ buffer[50] = 255
  /\ parsed.value.header.stratum = 2

(***************************************************************************)
(* What an attempt accepts, under SpecDatagram.                            *)
(***************************************************************************)
\* the originate timestamp of a datagram is the transmit timestamp of attempt
\* i's request
AnswersRequest(buf, i) == SubSeq(buf, 25, 32) = SubSeq(att[i].request, 41, 48)

\* C36: a datagram of 48 bytes or more that arrives on the socket of an
\* attempt is accepted as its reply, from whatever address, in whatever mode
\* and with whatever originate timestamp: the attempt and the call resolve
\* with it, and none of the three is compared with the request.
AnyDatagramAccepted ==
  [][\A i \in AttemptIds, address \in SenderAddresses, rnd \in RandomDraws :
       \A buf \in DatagramsFor(i) :
         (Receive(i, buf, address, rnd) /\ Len(buf) >= 48) =>
           /\ att'[i].promise = "resolved"
           /\ att'[i].sock = "closed"
           /\ pc' = "resolved"
           /\ ~ uncaught'
           /\ outcome' = Return([ buffer              |-> buf,
                                  parsed              |-> parsePacket(buf).value,
                                  serverAddress       |-> address,
                                  clientReceiveTime   |-> NewDate(now),
                                  clientOriginateTime |->
                                    NewDate(NSub(now, NDiv(NInt(client.timeout), 2))),
                                  usedServer          |-> att[i].host ])]_vars

\* the call returned a datagram in client mode from the second address whose
\* originate timestamp is not the transmit timestamp of the request
ForeignDatagramReturned ==
  /\ pc = "resolved"
  /\ outcome.value.serverAddress = "198.51.100.9"
  /\ outcome.value.parsed.header.mode = 3
  /\ ~ AnswersRequest(outcome.value.buffer, Len(att))
  /\ att[Len(att)].request[1] = 35

(***************************************************************************)
(* The seconds of the request, under SpecRequest.                          *)
(***************************************************************************)
\* the seconds createRequestPacket writes: Unix seconds + 2208988800
NtpSecondsNow == NAdd(NFloor(NDiv(now, 1000)), NTP_EPOCH_OFFSET)

\* C37: createRequestPacket succeeds for every value of the clock: the
\* seconds it writes fit the unsigned 32-bit field.
RequestAlwaysBuilt ==
  request # Pending =>
    /\ ~ request.threw
    /\ NLeq(NtpSecondsNow, MaxUInt32)

\* C37, as the code has it: createRequestPacket succeeds exactly while the
\* seconds are below 2^32, that is before 2036-02-07T06:28:16Z, and writes
\* them as they are; from then on it throws ERR_OUT_OF_RANGE.
RequestBuiltUntilRollover ==
  request # Pending =>
    /\ request.threw <=> NLess(MaxUInt32, NtpSecondsNow)
    /\ request.threw => request = Throw(Message(ERR_OUT_OF_RANGE))
    /\ ~ request.threw => RequestWord(40) = NtpSecondsNow

(***************************************************************************)
(* Properties of the command-line driver, under SpecCli.                   *)
(***************************************************************************)
Continuous == cli.options.continuous

\* the line or the error of the query that has just ended: after a success
\* the line with the counter, after a failure the error and no line
PrintedForQuery ==
  cli.phase = "sleeping" =>
    /\ Settled
    /\ cli.out # NoOutput <=> ~ outcome.threw
    /\ cli.err # NoError <=> outcome.threw
    /\ cli.out # NoOutput => cli.out.count = cli.count

\* the counter goes up by one in the step that prints the line of a
\* successful query and in no other step, and the query that ended is followed
\* by the sleep, whether it succeeded or failed
CounterCountsSuccesses ==
  /\ cli'.count = IF cli.phase = "querying" /\ cli'.phase = "sleeping" /\ ~ outcome.threw
                  THEN cli.count + 1 ELSE cli.count
  /\ (Continuous /\ cli.phase = "querying" /\ cli'.phase # "querying") =>
       cli'.phase = "sleeping"
  /\ (cli.phase = "sleeping" /\ cli'.phase # "sleeping") =>
       (cli'.phase = "querying" /\ cli'.queries = cli.queries + 1 /\ pc' # "idle")

\* C38: in continuous mode nothing ends the loop: the driver is querying or
\* sleeping and the process lives, and the counter counts the successful
\* queries.
ContinuousLoopNeverEnds ==
  Continuous =>
    /\ cli.phase \in { "querying", "sleeping" }
    /\ ~ uncaught
    /\ cli.count <= cli.queries
    /\ PrintedForQuery

\* C38, as the code has it: the loop goes on after every query that failed or
\* succeeded, and the counter counts the successes, for as long as no callback
\* of an attempt throws; that ends the process, loop included.
ContinuousLoopEndsByThrowOnly ==
  /\ [](Continuous =>
          /\ cli.phase \in { "querying", "sleeping" }
          /\ cli.count <= cli.queries
          /\ PrintedForQuery)
  /\ [][Continuous => CounterCountsSuccesses]_vars

\* after a query that failed the loop has slept and is in its second query
QueriedAgainAfterFailure ==
  /\ Continuous
  /\ cli.queries = 2
  /\ cli.count = 0
  /\ cli.phase = "querying"
  /\ pc = "running"

\* C39: the offset that the default, JSON, offset-only and continuous outputs
\* show is the transmit timestamp in ms minus the client receive time in ms of
\* the result that query() returned, which is what getOffset() computes for
\* it; the sign shown is "+" exactly when it is positive.
ShownOffsetIsGetOffset ==
  (cli.out # NoOutput /\ cli.out.kind # "verbose") =>
    /\ pc = "resolved"
    /\ cli.out.offsetMs = getOffsetOf(outcome.value)
    /\ cli.out.offsetMs = NSub(outcome.value.parsed.timestamps.transmit.timestamp,
                               outcome.value.clientReceiveTime)
    /\ cli.out.kind # "json" => (cli.out.sign = "+" <=> NSign(getOffsetOf(outcome.value)) > 0)
    /\ cli.out.kind = (IF Continuous THEN "continuous"
                       ELSE IF cli.options.json THEN "json"
                       ELSE IF cli.options.offset THEN "offset" ELSE "default")

\* the second line of continuous mode shows a negative offset
SecondLineShowsOffset ==
  /\ cli.out # NoOutput
  /\ cli.out.kind = "continuous"
  /\ cli.out.count = 2
  /\ NSign(cli.out.offsetMs) < 0
  /\ cli.out.sign = ""

====
